---- MODULE Spec2Model ----
(***************************************************************************)
(* pi-mcp-server: the session store (src/session-store.ts), the "pi" tool  *)
(* (src/tools/pi.ts) and the "pi-reply" tool (src/tools/pi-reply.ts) as a  *)
(* state machine over one JavaScript event loop.  Every action is one      *)
(* run-to-completion segment of a handler: from its start, or from the     *)
(* continuation of an await, up to the next await or the return.           *)
(*                                                                         *)
(* The specifications share the state:                                     *)
(*   Spec       the server as index.ts wires it: pi and pi-reply calls,    *)
(*              the expiry timer, clear and delete;                        *)
(*   SpecStore  the SessionStore class driven through its public methods   *)
(*              with caller-chosen ids and entries;                        *)
(*   SpecDelete, SpecClear, SpecSweep, SpecLookup                          *)
(*              the same class observed at one group of methods; in the    *)
(*              first three unsubscribe, abort and dispose may throw;      *)
(*   SpecAbort  disposals, and the promises of session.abort() settling;   *)
(*   SpecEvents the tools with the event streamer                          *)
(*              (src/event-streamer.ts) and the process handlers of        *)
(*              index.ts;                                                  *)
(*   SpecShutdown the shutdown sequence of index.ts, from the await of     *)
(*              server.connect on;                                         *)
(*   SpecExec   one call of the sandboxed exec (src/sandbox.ts);           *)
(*   SpecConfig loadConfig (src/config.ts) and main() of index.ts up to    *)
(*              the connected server, over the environment's values.       *)
(***************************************************************************)
EXTENDS Integers, Sequences, FiniteSets, TLC

\* ------------------------------------------------------------ bounds
MaxSessions == 2    \* SpecStore: stores of capacity 1 .. MaxSessions
MaxObj == 3         \* SpecStore: entries created in one behaviour
ToolSessions == 2   \* Spec: the configured maxSessions
MaxPi == 3          \* Spec: pi calls in one behaviour
NReply == 2         \* Spec: pi-reply calls in one behaviour
MaxTicks == 2       \* clock advances in one behaviour
IdleSeconds == 1    \* the positive idle timeout tried (0 is tried too)
MaxStarting == 1    \* pi calls that have no session yet, at one time
MaxUnhandled == 2   \* SpecEvents: rejected promises not yet reported by Node
MaxTriggers == 3    \* SpecShutdown: signals and transport closes in one behaviour
MaxChildErrors == 2 \* SpecExec: 'error' events after which the child emits none by itself
MaxExecTicks == 8   \* SpecExec: clock advances during one exec call
MaxEnvLen == 2      \* SpecConfig: length of the strings tried as environment values
ExactDigits == 9    \* SpecConfig: digits of the integers held as integers of the model

\* ------------------------------------------------------------ constants
MsPerSecond == 1000 \* session-store.ts:22, idleTimeoutSeconds * 1000
TickMs == MsPerSecond          \* SpecStore: the clock step, one second
ToolTickMs == 2 * MsPerSecond  \* Spec: the clock step, two seconds

Max(a, b) == IF a >= b THEN a ELSE b
Obj == 1 .. Max(MaxObj, MaxPi)
PiCall == 1 .. MaxPi
Reply == 1 .. NReply

\* crypto.randomUUID(): a fresh non-empty string per pi call.
UUID(o) == "u" \o ToString(o)
ThreadIds == {UUID(o) : o \in PiCall}
\* Ids a caller of the SessionStore class may pass: any string, "" included.
StoreIds == {"", "a", "b"}

VARIABLES
  sessions,        \* _sessions: the Map in insertion order, <<[id, entry]>>
  entries,         \* the SessionEntry objects and their sessions, by object
  maxSessions,     \* _maxSessions
  idleTimeoutMs,   \* _idleTimeoutMs
  expiryTimer,     \* _expiryTimer is set (the interval is scheduled)
  now,             \* Date.now()
  nextObj,         \* objects created so far
  resolved,        \* the mutex promises that are resolved; 0 is Promise.resolve()
  reply,           \* the pi-reply calls: position and locals
  pi,              \* the pi calls: position and locals (pi call o creates session o)
  installOrder,    \* history: per entry, the calls in the order they installed a ticket
  startOrder,      \* history: per entry, the calls in the order they called session.prompt
  lastOp,          \* history: the store method called in the last step and its outcome
  lastRet,         \* history: the tool call that returned in the last step, and its result
  watch,           \* the store methods whose calls lastOp records
  flaky,           \* whether unsubscribe, abort and dispose may throw
  env,             \* process.env: the variables loadConfig checks
  proc,            \* the node process: its phase, the rejections nobody handles,
                   \* and the shutdown: its guard, its position and its history
  exec             \* one call of the sandboxed exec: its locals, its child, its promise

vars == <<sessions, entries, maxSessions, idleTimeoutMs, expiryTimer, now, nextObj, resolved,
          reply, pi, installOrder, startOrder, lastOp, lastRet, watch, flaky, env, proc,
          exec>>

\* ------------------------------------------------------------ JS values
\* A value of type string | undefined: <<>> is undefined, <<s>> the string s.
Undefined == <<>>
\* !v for v : string | undefined: undefined and the empty string are falsy.
Falsy(v) == v = Undefined \/ v = <<"">>
\* Infinity is <<>>, a finite time t is <<t>>; t < limit for a finite t.
Infinity == <<>>
LessThan(t, limit) == limit = Infinity \/ t < limit[1]

\* A string that is parsed is the sequence of its UTF-16 code units: "20" is
\* <<50, 48>>.
Digits == 48 .. 57
DigitValue(ch) == ch - 48
\* v ?? fallback for v : string | undefined
Nullish(v, fallback) == IF v = Undefined THEN fallback ELSE v[1]
\* StrWhiteSpaceChar, the white space parseInt skips: tab, LF, VT, FF, CR,
\* space, no-break space, the other space separators of Unicode (U+1680,
\* U+2000 to U+200A, U+202F, U+205F, U+3000), the line and the paragraph
\* separator (U+2028, U+2029) and the byte order mark (U+FEFF).
WhiteSpace ==
  (9 .. 13) \cup {32, 160, 5760} \cup (8192 .. 8202)
    \cup {8232, 8233, 8239, 8287, 12288, 65279}

\* A number, as parseInt(str, 10) and a product of it yield them: NaN, an
\* integer, or an infinity.  kind is "NaN", "finite" for an integer, or
\* "Infinity"; sign is 1 or -1.  An integer is written as the code computes
\* it, with the two roundings of the code: digits is the decimal numeral
\* parsed (most significant digit first, without leading zeros, <<>> for
\* zero) and scale the factor it was multiplied by, 1 if by none, and the
\* number is sign * fl(fl(digits) * scale), where fl(x) is the double
\* nearest to x, ties to even.
NaN == [kind |-> "NaN", sign |-> 1, digits |-> <<>>, scale |-> 1]
IsNaN(n) == n.kind = "NaN"
\* 2^1024 - 2^970, the least integer that rounds to no finite double: the
\* midpoint of Number.MAX_VALUE and 2^1024.
OverflowNumeral ==
  <<1, 7, 9, 7, 6, 9, 3, 1, 3, 4, 8, 6, 2, 3, 1, 5, 8, 0, 7, 9, 3, 7, 2, 8, 9,
    7, 1, 4, 0, 5, 3, 0, 3, 4, 1, 5, 0, 7, 9, 9, 3, 4, 1, 3, 2, 7, 1, 0, 0, 3,
    7, 8, 2, 6, 9, 3, 6, 1, 7, 3, 7, 7, 8, 9, 8, 0, 4, 4, 4, 9, 6, 8, 2, 9, 2,
    7, 6, 4, 7, 5, 0, 9, 4, 6, 6, 4, 9, 0, 1, 7, 9, 7, 7, 5, 8, 7, 2, 0, 7, 0,
    9, 6, 3, 3, 0, 2, 8, 6, 4, 1, 6, 6, 9, 2, 8, 8, 7, 9, 1, 0, 9, 4, 6, 5, 5,
    5, 5, 4, 7, 8, 5, 1, 9, 4, 0, 4, 0, 2, 6, 3, 0, 6, 5, 7, 4, 8, 8, 6, 7, 1,
    5, 0, 5, 8, 2, 0, 6, 8, 1, 9, 0, 8, 9, 0, 2, 0, 0, 0, 7, 0, 8, 3, 8, 3, 6,
    7, 6, 2, 7, 3, 8, 5, 4, 8, 4, 5, 8, 1, 7, 7, 1, 1, 5, 3, 1, 7, 6, 4, 4, 7,
    5, 7, 3, 0, 2, 7, 0, 0, 6, 9, 8, 5, 5, 5, 7, 1, 3, 6, 6, 9, 5, 9, 6, 2, 2,
    8, 4, 2, 9, 1, 4, 8, 1, 9, 8, 6, 0, 8, 3, 4, 9, 3, 6, 4, 7, 5, 2, 9, 2, 7,
    1, 9, 0, 7, 4, 1, 6, 8, 4, 4, 4, 3, 6, 5, 5, 1, 0, 7, 0, 4, 3, 4, 2, 7, 1,
    1, 5, 5, 9, 6, 9, 9, 5, 0, 8, 0, 9, 3, 0, 4, 2, 8, 8, 0, 1, 7, 7, 9, 0, 4,
    1, 7, 4, 4, 9, 7, 7, 9, 2>>
\* The least integer n for which fl(n) * MsPerSecond rounds to no finite
\* double: fl(n) * 1000 >= 2^1024 - 2^970.
MsOverflowNumeral ==
  <<1, 7, 9, 7, 6, 9, 3, 1, 3, 4, 8, 6, 2, 3, 1, 5, 7, 5, 0, 2, 4, 5, 0,
    3, 0, 7, 6, 6, 5, 6, 5, 0, 3, 9, 5, 9, 5, 1, 0, 7, 3, 1, 7, 5, 9, 0,
    8, 7, 9, 2, 6, 3, 4, 6, 8, 9, 7, 4, 4, 7, 4, 7, 9, 2, 8, 4, 2, 0, 0,
    5, 1, 2, 3, 8, 6, 9, 6, 4, 1, 2, 8, 2, 7, 6, 5, 8, 3, 3, 9, 3, 0, 4,
    3, 8, 6, 2, 9, 5, 4, 4, 3, 6, 6, 8, 6, 1, 6, 7, 4, 1, 4, 5, 4, 2, 8,
    1, 4, 4, 4, 9, 5, 6, 6, 0, 4, 5, 1, 3, 8, 8, 5, 8, 0, 0, 8, 8, 3, 8,
    0, 2, 2, 8, 2, 8, 9, 2, 8, 4, 7, 1, 2, 7, 4, 1, 4, 5, 1, 0, 7, 7, 4,
    0, 4, 2, 2, 5, 8, 3, 6, 1, 7, 5, 5, 9, 3, 1, 3, 7, 5, 7, 4, 5, 6, 4,
    7, 1, 5, 8, 5, 6, 7, 7, 8, 4, 8, 2, 5, 6, 9, 9, 9, 6, 8, 0, 1, 5, 8,
    3, 1, 0, 0, 3, 0, 7, 1, 4, 0, 0, 7, 6, 1, 9, 9, 2, 5, 5, 6, 2, 6, 2,
    1, 5, 9, 7, 9, 8, 6, 8, 6, 3, 1, 0, 2, 7, 0, 9, 3, 2, 4, 8, 3, 7, 2,
    2, 6, 9, 0, 8, 0, 8, 6, 7, 3, 7, 8, 6, 7, 9, 1, 0, 3, 2, 1, 3, 4, 0,
    1, 2, 1, 9, 6, 7, 2, 0, 0, 2, 2, 0, 6, 0, 0, 3, 5, 4, 9, 0, 2, 6, 9,
    1, 0, 2, 0, 8, 0, 0>>
\* sign * fl(fl(digits) * scale), for scale 1 or MsPerSecond: an infinity
\* if the numeral is longer than the least numeral that overflows, or is as
\* long and not below it (equal, or with the greater digit where the two
\* first differ).
Rounded(sign, digits, scale) ==
  LET least == IF scale = 1 THEN OverflowNumeral ELSE MsOverflowNumeral
      notBelow ==
        \/ digits = least
        \/ \E i \in 1 .. Len(digits) :
             /\ digits[i] > least[i]
             /\ \A j \in 1 .. (i - 1) : digits[j] = least[j]
      overflows ==
        \/ Len(digits) > Len(least)
        \/ Len(digits) = Len(least) /\ notBelow
  IN IF overflows
     THEN [kind |-> "Infinity", sign |-> sign, digits |-> <<>>, scale |-> 1]
     ELSE [kind |-> "finite", sign |-> sign, digits |-> digits,
           scale |-> scale]
RECURSIVE Decimal(_, _)
Decimal(digits, acc) ==
  IF digits = <<>> THEN acc
  ELSE Decimal(Tail(digits), 10 * acc + Head(digits))
\* An integer short enough to be held as an integer of the model: the
\* digits of the numeral and of the scale are at most ExactDigits, so
\* neither rounding changes it.
IsExact(n) ==
  /\ n.kind = "finite"
  /\ LET zeros == CHOOSE z \in 0 .. ExactDigits : 10 ^ z = n.scale
     IN Len(n.digits) + zeros <= ExactDigits
\* A number as a variable of the state holds it: an integer where the model
\* can hold it, the number as it is otherwise.
Value(n) ==
  IF IsExact(n) THEN n.sign * Decimal(n.digits, 0) * n.scale ELSE n
\* n < k for an integer k >= 0 of the model; -0 is not below 0.
Below(n, k) ==
  /\ ~IsNaN(n)
  /\ IF IsExact(n) THEN Value(n) < k ELSE n.sign < 0
\* n * k for k = MsPerSecond and n as parseInt returned it: the double n
\* times k, rounded again; NaN, an infinity and a zero stay as they are.
Times(n, k) ==
  IF n.kind = "finite" /\ n.digits # <<>>
  THEN Rounded(n.sign, n.digits, k)
  ELSE n

\* parseInt(str, 10): leading white space is skipped, one sign is taken, then
\* the digits up to the first character that is not one; NaN if there are
\* none, else the double nearest to the integer they denote.
\* LeadingIn(str, S) is the number of elements at the head of str that are
\* in S.
LeadingIn(str, S) ==
  IF \A i \in 1 .. Len(str) : str[i] \in S THEN Len(str)
  ELSE (CHOOSE k \in 1 .. Len(str) :
          str[k] \notin S /\ \A i \in 1 .. (k - 1) : str[i] \in S) - 1
SkipSpaces(str) == SubSeq(str, LeadingIn(str, WhiteSpace) + 1, Len(str))
\* 45 and 43 are the code units of "-" and "+"; the numeral of the result
\* is the digits without their leading zeros.
ParseInt(str) ==
  LET s == SkipSpaces(str)
      signed == s # <<>> /\ Head(s) \in {45, 43}
      rest == IF signed THEN Tail(s) ELSE s
      digits == [i \in 1 .. LeadingIn(rest, Digits) |-> DigitValue(rest[i])]
      numeral == SubSeq(digits, LeadingIn(digits, {0}) + 1, Len(digits))
  IN IF digits = <<>> THEN NaN
     ELSE Rounded(IF signed /\ Head(s) = 45 THEN -1 ELSE 1, numeral, 1)

\* ------------------------------------------------------------ the Map
MapHas(m, id) == \E i \in 1 .. Len(m) : m[i].id = id
\* Map.get: the entry object stored under id, 0 for undefined.
MapGet(m, id) ==
  IF MapHas(m, id) THEN m[CHOOSE i \in 1 .. Len(m) : m[i].id = id].entry ELSE 0
\* Map.set: an existing key keeps its place in the order, a new key goes last.
MapSet(m, id, e) ==
  IF MapHas(m, id)
  THEN [i \in 1 .. Len(m) |-> IF m[i].id = id THEN [id |-> id, entry |-> e] ELSE m[i]]
  ELSE Append(m, [id |-> id, entry |-> e])
\* Variant of MapDelete: removes the key and every key inserted before it.
MapDeleteThrough(m, id) ==
  IF \E i \in 1 .. Len(m) : m[i].id = id
  THEN SubSeq(m, (CHOOSE i \in 1 .. Len(m) : m[i].id = id) + 1, Len(m))
  ELSE m
MapDelete(m, id) == SelectSeq(m, LAMBDA r : r.id # id)
\* Variant of MapKeys: the first key only.
MapKeysFirst(m) == IF Len(m) = 0 THEN <<>> ELSE <<m[1].id>>
\* [...map.keys()]: the keys in insertion order.
MapKeys(m) == [i \in 1 .. Len(m) |-> m[i].id]
KeySet(m) == {m[i].id : i \in 1 .. Len(m)}
EntrySet(m) == {m[i].entry : i \in 1 .. Len(m)}

\* ------------------------------------------------------------ SessionStore
\* A store state is [sessions, entries]; every method maps one to the next.
St(m, ents) == [sessions |-> m, entries |-> ents]
\* The capacity is passed to the operators that read this._maxSessions.

\* has(threadId)
Has(st, threadId) == MapHas(st.sessions, threadId)

\* Variant of Get: a lookup that misses falls back to the oldest stored record.
GetFallsBack(st, threadId, t) ==
  LET hit == MapGet(st.sessions, threadId)
      entry == IF hit = 0 /\ Len(st.sessions) > 0 THEN st.sessions[1].entry ELSE hit
  IN [entry |-> entry,
      st |-> IF entry # 0
             THEN St(st.sessions, [st.entries EXCEPT ![entry].lastAccessed = t])
             ELSE st]
\* Variant of Get: the lookup stamps the epoch instead of the current time.
GetStampsEpoch(st, threadId, t) ==
  LET entry == MapGet(st.sessions, threadId) IN
  [entry |-> entry,
   st |-> IF entry # 0
          THEN St(st.sessions, [st.entries EXCEPT ![entry].lastAccessed = 0])
          ELSE st]
\* Variant of Get: the lookup without the refresh of lastAccessed.
GetNoRefresh(st, threadId, t) == [entry |-> MapGet(st.sessions, threadId), st |-> st]
\* get(threadId): the entry (0 for undefined) and the store with lastAccessed refreshed.
Get(st, threadId, t) ==
  LET entry == MapGet(st.sessions, threadId) IN
  [entry |-> entry,
   st |-> IF entry # 0
          THEN St(st.sessions, [st.entries EXCEPT ![entry].lastAccessed = t])
          ELSE st]

\* The callbacks a disposal invokes, in the order of the code.
Callbacks == {"unsubscribe", "abort", "dispose"}
\* One invocation: the entry and the callback.
Call(e, call) == [entry |-> e, call |-> call]
\* Whether callback call of entry e throws: bad are the entries whose
\* callbacks fail, calls the callbacks of theirs that throw.
Throws(faults, e, call) == e \in faults.bad /\ call \in faults.calls
NoFaults == [bad |-> {}, calls |-> {}]

\* Variant of Escapes: the statement without try/catch.
EscapesUncaught(thrown) == thrown
\* try { f() } catch (err) { console.error(...) }: whether an error leaves the block.
Escapes(thrown) == FALSE

\* The element of a set of one element.  {F(x) : x \in {v}} is F(v) with v
\* computed once, where a LET would compute it at every use.
The(S) == CHOOSE v \in S : TRUE

\* Variant of ReleaseSteps: the disposal without its call of abort().
ReleaseStepsWithoutAbort(ents, e, faults) ==
  LET t1 == Throws(faults, e, "unsubscribe")
      t3 == Throws(faults, e, "dispose")
      e1 == [ents EXCEPT ![e].unsubscribed = @ + 1]
      e3 == [e1 EXCEPT ![e].disposed = @ + 1]
      l3 == <<Call(e, "unsubscribe"), Call(e, "dispose")>>
  IN [ents |-> e3, log |-> l3,
      thrown |-> {c \in {"unsubscribe", "dispose"} : Throws(faults, e, c)},
      threw |-> FALSE]
\* The three release steps of a disposal, each in its own try/catch: the
\* entries afterwards, the invocations in order, the callbacks that threw, and
\* whether an error escaped.
\* A step runs only if no error escaped from an earlier one.  abort() that
\* does not throw returns a promise, left pending here with its .catch
\* attached; nothing awaits it.
ReleaseSteps(ents, e, faults) ==
  LET t1 == Throws(faults, e, "unsubscribe")
      t2 == Throws(faults, e, "abort")
      t3 == Throws(faults, e, "dispose")
      x1 == Escapes(t1)
      x2 == x1 \/ Escapes(t2)
      x3 == x2 \/ Escapes(t3)
      e1 == [ents EXCEPT ![e].unsubscribed = @ + 1]
      e2 == IF x1 THEN e1
            ELSE [e1 EXCEPT ![e].aborted = @ + 1,
                            ![e].abort = IF t2 THEN @ ELSE "pending"]
      e3 == IF x2 THEN e2 ELSE [e2 EXCEPT ![e].disposed = @ + 1]
      l1 == <<Call(e, "unsubscribe")>>
      l2 == IF x1 THEN l1 ELSE Append(l1, Call(e, "abort"))
      l3 == IF x2 THEN l2 ELSE Append(l2, Call(e, "dispose"))
      thrown == The({{c \in Callbacks : \E i \in 1 .. Len(l) : l[i].call = c /\ Throws(faults, e, c)}
                      : l \in {l3}})
  IN [ents |-> e3, log |-> l3, thrown |-> thrown, threw |-> x3]

\* Variant of Absent: the disposal without its early return.
AbsentNever(entry) == FALSE
\* if (!entry) return: Map.get found nothing under the id.
Absent(entry) == entry = 0

\* The invocations of log, if has(threadId) is true of the Map m they run on.
StoredDuring(m, threadId, log) ==
  IF MapHas(m, threadId) THEN {log[i] : i \in 1 .. Len(log)} ELSE {}
\* What a disposal that found nothing under the id returns.
NothingDisposed(st) ==
  [st |-> st, log |-> <<>>, thrown |-> {}, threw |-> FALSE, stored |-> {}]

\* Variant of DisposeEntry: the release steps without the Map.delete before them.
DisposeEntryKeepsRecord(st, threadId, faults) ==
  LET entry == MapGet(st.sessions, threadId) IN
  IF Absent(entry) THEN NothingDisposed(st)
  ELSE The({[st |-> St(st.sessions, r.ents), log |-> r.log, thrown |-> r.thrown,
             threw |-> r.threw, stored |-> StoredDuring(st.sessions, threadId, r.log)]
            : r \in {ReleaseSteps(st.entries, entry, faults)}})
\* Variant of DisposeEntry: the Map.delete after the release steps.
DisposeEntryDeletesLast(st, threadId, faults) ==
  LET entry == MapGet(st.sessions, threadId) IN
  IF Absent(entry) THEN NothingDisposed(st)
  ELSE The({[st |-> St(MapDelete(st.sessions, threadId), r.ents),
             log |-> r.log, thrown |-> r.thrown, threw |-> r.threw,
             stored |-> StoredDuring(st.sessions, threadId, r.log)]
            : r \in {ReleaseSteps(st.entries, entry, faults)}})
\* _disposeEntry(threadId): the store afterwards, the invocations, those that
\* threw, whether it threw, and the invocations during which has(threadId)
\* was true.  The Map.delete comes first, so the callbacks run on the Map
\* without the id.
DisposeEntry(st, threadId, faults) ==
  LET entry == MapGet(st.sessions, threadId) IN
  IF Absent(entry) THEN NothingDisposed(st)
  ELSE The({[st |-> St(deleted, r.ents),
             log |-> r.log, thrown |-> r.thrown, threw |-> r.threw,
             stored |-> StoredDuring(deleted, threadId, r.log)]
            : deleted \in {MapDelete(st.sessions, threadId)},
              r \in {ReleaseSteps(st.entries, entry, faults)}})

\* Variant of IsCandidate: the scan without the isStreaming test.
IsCandidateAnyState(e, oldestTime) == LessThan(e.lastAccessed, oldestTime)
\* The test of the victim scan: idle, and older than the oldest so far.
IsCandidate(e, oldestTime) == ~e.isStreaming /\ LessThan(e.lastAccessed, oldestTime)

\* The victim scan of set: the loop over the Map with oldestId and oldestTime.
RECURSIVE OldestIdleFrom(_, _, _)
OldestIdleFrom(st, i, acc) ==
  IF i > Len(st.sessions) THEN acc
  ELSE LET id == st.sessions[i].id
           e == st.entries[st.sessions[i].entry]
       IN IF IsCandidate(e, acc.oldestTime)
          THEN OldestIdleFrom(st, i + 1,
                 [oldestId |-> <<id>>, oldestTime |-> <<e.lastAccessed>>])
          ELSE OldestIdleFrom(st, i + 1, acc)
OldestIdle(st) ==
  OldestIdleFrom(st, 1, [oldestId |-> Undefined, oldestTime |-> Infinity])

\* Variant of NeedsSlot: the capacity test without the test for a known id.
NeedsSlotAnyId(st, threadId, max) == Len(st.sessions) >= max
\* Variant of NeedsSlot: > for >=.
NeedsSlotOffByOne(st, threadId, max) ==
  Len(st.sessions) > max /\ ~Has(st, threadId)
\* The capacity test of set: at capacity and the id is new.
NeedsSlot(st, threadId, max) ==
  Len(st.sessions) >= max /\ ~Has(st, threadId)

\* The test that decides the throw: if (!oldestId).
NoVictim(oldestId) == Falsy(oldestId)

\* Variant of CapacityError: the default limit written into the message.
CapacityErrorHardCoded(max) ==
  <<"Maximum sessions (", 20, ") reached and all are active. Try again later.">>
\* The message of the error set throws.
CapacityError(max) ==
  <<"Maximum sessions (", max, ") reached and all are active. Try again later.">>

\* What set throws: nothing, the capacity error, or what escaped the disposal.
NoError == <<>>
DisposalError == <<"error thrown by a callback">>

\* set(threadId, entry): threw, the error, the evicted entry (0 for none), the
\* invocations of the eviction and those that threw, the store.
Set(st, threadId, entry, max, faults) ==
  IF NeedsSlot(st, threadId, max)
  THEN LET oldestId == OldestIdle(st).oldestId IN
       IF NoVictim(oldestId)
       THEN [threw |-> TRUE, err |-> CapacityError(max), victim |-> 0,
             log |-> <<>>, thrown |-> {}, stored |-> {}, st |-> st]
       ELSE The({IF d.threw
                 THEN [threw |-> TRUE, err |-> DisposalError, victim |-> victim,
                       log |-> d.log, thrown |-> d.thrown, stored |-> d.stored,
                       st |-> d.st]
                 ELSE [threw |-> FALSE, err |-> NoError, victim |-> victim,
                       log |-> d.log, thrown |-> d.thrown, stored |-> d.stored,
                       st |-> St(MapSet(d.st.sessions, threadId, entry), d.st.entries)]
                 : d \in {DisposeEntry(st, oldestId[1], faults)},
                   victim \in {MapGet(st.sessions, oldestId[1])}})
  ELSE [threw |-> FALSE, err |-> NoError, victim |-> 0, log |-> <<>>, thrown |-> {},
        stored |-> {},
        st |-> St(MapSet(st.sessions, threadId, entry), st.entries)]

\* delete(threadId)
Delete(st, threadId, faults) == DisposeEntry(st, threadId, faults)

\* Variant of StopTimer: the timer left running.
StopTimerKept(timer) == timer
\* clearInterval(this._expiryTimer); this._expiryTimer = undefined
StopTimer(timer) == FALSE

\* The loop of clear over the keys snapshot; an error that escapes a disposal ends it.
RECURSIVE DisposeAll(_, _, _, _, _, _)
DisposeAll(st, ids, i, faults, log, thrown) ==
  IF i > Len(ids)
  THEN [st |-> st, log |-> log, thrown |-> thrown, threw |-> FALSE, stored |-> {}]
  ELSE The({IF d.threw
            THEN [st |-> d.st, log |-> log \o d.log, thrown |-> thrown \cup d.thrown,
                  threw |-> TRUE, stored |-> d.stored]
            ELSE [DisposeAll(d.st, ids, i + 1, faults, log \o d.log, thrown \cup d.thrown)
                    EXCEPT !.stored = @ \cup d.stored]
            : d \in {DisposeEntry(st, ids[i], faults)}})
\* clear(): the timer is stopped first if it is set, then the keys snapshot is disposed in order.
Clear(st, timer, faults) ==
  The({[st |-> r.st, log |-> r.log, thrown |-> r.thrown, threw |-> r.threw,
        stored |-> r.stored,
        timer |-> IF timer THEN StopTimer(timer) ELSE timer]
       : r \in {DisposeAll(st, MapKeys(st.sessions), 1, faults,
                           IF timer THEN <<Call(0, "clearInterval")>> ELSE <<>>, {})}})

\* Variant of IsExpired: >= for >.
IsExpiredInclusive(e, t, timeoutMs) == t - e.lastAccessed >= timeoutMs
\* The expiry test of _expireIdle.
IsExpired(e, t, timeoutMs) == t - e.lastAccessed > timeoutMs

\* _expireIdle(): one tick, over the Map in order; each disposal in a try/catch.
RECURSIVE ExpireFrom(_, _, _, _, _, _, _, _)
ExpireFrom(st, m, i, t, timeoutMs, faults, log, thrown) ==
  IF i > Len(m)
  THEN [st |-> st, log |-> log, thrown |-> thrown, threw |-> FALSE, stored |-> {}]
  ELSE IF IsExpired(st.entries[m[i].entry], t, timeoutMs)
       THEN The({IF Escapes(d.threw)
                 THEN [st |-> d.st, log |-> log \o d.log, thrown |-> thrown \cup d.thrown,
                       threw |-> TRUE, stored |-> d.stored]
                 ELSE [ExpireFrom(d.st, m, i + 1, t, timeoutMs, faults, log \o d.log,
                                  thrown \cup d.thrown)
                         EXCEPT !.stored = @ \cup d.stored]
                 : d \in {DisposeEntry(st, m[i].id, faults)}})
       ELSE ExpireFrom(st, m, i + 1, t, timeoutMs, faults, log, thrown)
ExpireIdle(st, t, timeoutMs, faults) ==
  ExpireFrom(st, st.sessions, 1, t, timeoutMs, faults, <<>>, {})

\* ------------------------------------------------------------ the agent session
\* session.prompt(text) is in flight from its call to the settling of its promise.
\* The session is the agent library's; its isStreaming is taken to be true for
\* exactly that time.
PromptStart(ents, e) == [ents EXCEPT ![e].isStreaming = TRUE]
PromptEnd(ents, e) == [ents EXCEPT ![e].isStreaming = FALSE]
\* What follows the call: the promise rejects; or it resolves and
\* session.getLastAssistantText() returns a text, returns none, or throws.
PromptOutcomes == {"text", "notext", "throw", "textThrows"}

\* disposeSession(session, unsubscribe) of the pi tool
DisposeSession(ents, e, faults) == ReleaseSteps(ents, e, faults)

\* ------------------------------------------------------------ initial state
NewEntry ==
  [lastAccessed |-> 0, mutex |-> 0, isStreaming |-> FALSE,
   unsubscribed |-> 0, aborted |-> 0, disposed |-> 0, abort |-> "none"]
IdleReply == [pc |-> "idle", threadId |-> "", entry |-> 0, previousMutex |-> 0]
\* What the store method called in the last step did: its name and id argument,
\* the entry passed (set) or returned (get, 0 for undefined), what has returned,
\* whether it threw and what, the entry it evicted (0 for none), the callbacks
\* it invoked in order, those that threw and those that ran while their
\* record's id was still in the store, and for set the store it was called on.
Op(op, id, entry, found, threw, err, victim, log, thrown, pre) ==
  [op |-> op, id |-> id, entry |-> entry, found |-> found, threw |-> threw, err |-> err,
   victim |-> victim, log |-> log, thrown |-> thrown, stored |-> {}, pre |-> pre]
NoOp == Op("none", "", 0, FALSE, FALSE, NoError, 0, <<>>, {}, <<>>)
SetOp(id, entry, r, pre) ==
  [Op("set", id, entry, FALSE, r.threw, r.err, r.victim, r.log, r.thrown, pre)
     EXCEPT !.stored = r.stored]
\* delete, clear and a sweep tick: r is what the method did.
DisposalOp(op, id, r) ==
  [Op(op, id, 0, FALSE, r.threw, IF r.threw THEN DisposalError ELSE NoError, 0,
      r.log, r.thrown, <<>>)
     EXCEPT !.stored = r.stored]
GetOp(id, entry) == Op("get", id, entry, FALSE, FALSE, NoError, 0, <<>>, {}, <<>>)
HasOp(id, found) == Op("has", id, 0, found, FALSE, NoError, 0, <<>>, {}, <<>>)

\* lastOp records the calls of the methods in watch only.
Seen(op) == IF op.op \in watch THEN op ELSE NoOp

NoRet == [tool |-> "none", call |-> 0, result |-> ""]
Ret(tool, call, result) == [tool |-> tool, call |-> call, result |-> result]

\* The callbacks that may fail during one step: entries among those the step
\* can reach, and the callbacks of theirs that throw.
FaultChoices(reach) ==
  IF flaky
  THEN {f \in [bad : SUBSET reach, calls : SUBSET Callbacks] : (f.bad = {}) <=> (f.calls = {})}
  ELSE {NoFaults}

\* Variant of TimerScheduled: the interval scheduled whatever the timeout.
TimerScheduledAlways(timeoutMs) == TRUE
\* new SessionStore(maxSessions, idleTimeoutSeconds): the timer is scheduled
\* only for a positive timeout.
TimerScheduled(timeoutMs) == timeoutMs > 0

\* No variable of the environment is set: loadConfig takes its defaults.
DefaultEnv ==
  [maxSessions |-> Undefined, idleTimeout |-> Undefined, sandbox |-> Undefined,
   others |-> TRUE]
\* The process once main() has connected the server.
\* shutdownStarted is the guard of shutdown(), at its position; exitCode is
\* <<>> while the process runs.  History: log is the steps of shutdown
\* attempted in order, bodies the runs of its body, triggers the signals and
\* transport closes received, reentered whether server.close() raised one,
\* failed the steps in which something threw or rejected.
Running ==
  [phase |-> "running", unhandled |-> 0, escaped |-> FALSE, exitCode |-> <<>>,
   shutdownStarted |-> FALSE, at |-> "idle", log |-> <<>>, bodies |-> 0,
   triggers |-> 0, reentered |-> FALSE, failed |-> {}]

\* exec before it is called.  at is the call's position; timeout the option;
\* timeoutHandle and killHandle the timers (unset, armed with a deadline,
\* fired or cleared); child the process (none, alive, exited with its stdio
\* still open, closed); stderr whether any was collected; promise the
\* returned promise, <<>> while pending, <<"resolved", exitCode>> or
\* <<"rejected">>.  History: clock in ms, spawnedAt, events the 'error' and
\* 'close' events emitted with the clock, signals the child.kill calls with
\* the clock and the events emitted before each, wrapFailed, annotateThrew.
NoExec ==
  [at |-> "idle", timeout |-> 0,
   timeoutHandle |-> "unset", timeoutAt |-> 0, killHandle |-> "unset", killAt |-> 0,
   child |-> "none", code |-> <<>>, stderr |-> FALSE, promise |-> <<>>,
   clock |-> 0, spawnedAt |-> 0, events |-> <<>>, signals |-> <<>>,
   wrapFailed |-> FALSE, annotateThrew |-> FALSE]

\* The process while main() awaits server.connect(transport).
Connecting == [Running EXCEPT !.phase = "connecting"]

\* The state after new SessionStore(max, secs), before any call, in a process
\* whose main() has come to p.
ConstructedIn(max, secs, p) ==
  /\ sessions = <<>>
  /\ entries = [o \in Obj |-> NewEntry]
  /\ maxSessions = max
  /\ idleTimeoutMs = secs * MsPerSecond
  /\ expiryTimer = TimerScheduled(secs * MsPerSecond)
  /\ now = 0
  /\ nextObj = 0
  /\ resolved = {0}
  /\ reply = [c \in Reply |-> IdleReply]
  /\ pi = [o \in PiCall |-> [pc |-> "idle", session |-> FALSE]]
  /\ installOrder = [o \in Obj |-> <<>>]
  /\ startOrder = [o \in Obj |-> <<>>]
  /\ lastOp = NoOp
  /\ lastRet = NoRet
  /\ env = DefaultEnv
  /\ proc = p
  /\ exec = NoExec
\* The state after new SessionStore(max, secs), before any call.
Constructed(max, secs) == ConstructedIn(max, secs, Running)

\* What a specification observes, and whether it lets the callbacks throw.
Observed(methods, mayThrow) == watch = methods /\ flaky = mayThrow

\* index.ts: one store, built from the configuration.
Init == Constructed(ToolSessions, IdleSeconds) /\ Observed({"set"}, FALSE)
\* A store built by a caller: any capacity >= 1, any timeout >= 0.
Built == \E max \in 1 .. MaxSessions, secs \in {0, IdleSeconds} : Constructed(max, secs)
InitStore == Built /\ Observed({"set"}, FALSE)
\* Stores observed at one group of methods, with callbacks that may throw.
InitDelete ==
  /\ \E max \in 1 .. MaxSessions : Constructed(max, 0)
  /\ Observed({"delete"}, TRUE)
InitAbort ==
  /\ \E max \in 1 .. MaxSessions : Constructed(max, 0)
  /\ Observed({"delete"}, TRUE)
\* The process at its start, before main() has run: no store yet, and an
\* environment with any short strings and two long numerals for the two
\* variables, and
\* PI_MCP_SANDBOX unset, "true" or another string.
\* "0", "1", "-", "+", "a", space, tab, no-break space.
EnvChars == {48, 49, 45, 43, 97, 32, 9, 160}
\* The strings of up to MaxEnvLen of these, and two long numerals of nines
\* (code unit 57): the shortest that is too large for a finite double, and
\* the longest that is not.
EnvStrings ==
  UNION {[1 .. n -> EnvChars] : n \in 0 .. MaxEnvLen}
    \cup {[i \in 1 .. n |-> 57] :
            n \in {Len(OverflowNumeral), Len(OverflowNumeral) - 1}}
EnvValues == {Undefined} \cup {<<str>> : str \in EnvStrings}
SandboxValues == {Undefined, <<"true">>, <<"1">>}
Started == [Running EXCEPT !.phase = "start"]
InitConfig ==
  /\ sessions = <<>>
  /\ entries = [o \in Obj |-> NewEntry]
  /\ maxSessions = 0
  /\ idleTimeoutMs = 0
  /\ expiryTimer = FALSE
  /\ now = 0
  /\ nextObj = 0
  /\ resolved = {0}
  /\ reply = [c \in Reply |-> IdleReply]
  /\ pi = [o \in PiCall |-> [pc |-> "idle", session |-> FALSE]]
  /\ installOrder = [o \in Obj |-> <<>>]
  /\ startOrder = [o \in Obj |-> <<>>]
  /\ lastOp = NoOp
  /\ lastRet = NoRet
  /\ env \in [maxSessions : EnvValues, idleTimeout : EnvValues,
             sandbox : SandboxValues, others : BOOLEAN]
  /\ proc = Started
  /\ exec = NoExec
  /\ Observed({"set"}, FALSE)
\* index.ts at await server.connect(transport): the store built, transport.onclose set.
InitShutdown ==
  ConstructedIn(ToolSessions, IdleSeconds, Connecting) /\ Observed({"clear"}, TRUE)
InitClear == Constructed(MaxSessions, IdleSeconds) /\ Observed({"clear", "sweep"}, TRUE)
InitSweep == Constructed(MaxSessions, IdleSeconds) /\ Observed({"sweep"}, TRUE)
InitLookup == Constructed(MaxSessions, IdleSeconds) /\ Observed({"get", "has"}, FALSE)

Store == St(sessions, entries)
storeVars == <<sessions, entries>>
configVars == <<maxSessions, idleTimeoutMs, watch, flaky, env>>
callVars == <<resolved, reply, pi, installOrder, startOrder>>

\* ------------------------------------------------------------ clock and timer
\* Time passes between two event-loop turns.
Tick(ms) ==
  /\ now + ms <= MaxTicks * TickMs
  /\ now' = now + ms
  /\ lastOp' = NoOp
  /\ lastRet' = NoRet
  /\ UNCHANGED <<storeVars, configVars, exec, proc, expiryTimer, nextObj, callVars>>

\* The interval callback: () => this._expireIdle()
SweepTick ==
  /\ expiryTimer
  /\ \E faults \in FaultChoices(EntrySet(sessions)) :
     \E r \in {ExpireIdle(Store, now, idleTimeoutMs, faults)} :
       /\ sessions' = r.st.sessions
       /\ entries' = r.st.entries
       /\ lastOp' = Seen(DisposalOp("sweep", "", r))
  /\ lastRet' = NoRet
  /\ UNCHANGED <<configVars, exec, proc, expiryTimer, now, nextObj, callVars>>

\* store.clear()
ClearCall ==
  /\ \E faults \in FaultChoices(EntrySet(sessions)) :
     \E r \in {Clear(Store, expiryTimer, faults)} :
       /\ expiryTimer' = r.timer
       /\ sessions' = r.st.sessions
       /\ entries' = r.st.entries
       /\ lastOp' = Seen(DisposalOp("clear", "", r))
  /\ lastRet' = NoRet
  /\ UNCHANGED <<configVars, exec, proc, now, nextObj, callVars>>

\* store.delete(threadId)
DeleteCall(threadId) ==
  /\ \E faults \in FaultChoices({MapGet(sessions, threadId)} \ {0}) :
     \E r \in {Delete(Store, threadId, faults)} :
       /\ sessions' = r.st.sessions
       /\ entries' = r.st.entries
       /\ lastOp' = Seen(DisposalOp("delete", threadId, r))
  /\ lastRet' = NoRet
  /\ UNCHANGED <<configVars, exec, proc, expiryTimer, now, nextObj, callVars>>

\* Variant of AbortSettled: session.abort() without the .catch(...).
AbortSettledUncaught(how) == IF how = "reject" THEN "unhandled" ELSE "resolved"
\* session.abort().catch((err) => console.error(...)): what becomes of the
\* promise when it settles.  A rejection runs the handler, which logs it.
AbortSettled(how) == IF how = "reject" THEN "absorbed" ELSE "resolved"
\* The promise an abort() call of entry o returned settles, in a later turn
\* of the event loop.
AbortSettles(o, how) ==
  /\ entries[o].abort = "pending"
  /\ entries' = [entries EXCEPT ![o].abort = AbortSettled(how)]
  /\ proc' = IF AbortSettled(how) = "unhandled"
             THEN [proc EXCEPT !.unhandled = @ + 1]
             ELSE proc
  /\ lastOp' = NoOp
  /\ lastRet' = NoRet
  /\ UNCHANGED <<sessions, configVars, exec, expiryTimer, now, nextObj, callVars>>

\* ------------------------------------------------------------ SessionStore, driven directly
\* store.set(threadId, entry) with a fresh entry, as the tests' mockEntry() builds it.
StoreSet(threadId, streaming) ==
  /\ nextObj < MaxObj
  /\ \E faults \in FaultChoices(EntrySet(sessions)) :
     LET e == nextObj + 1
         made == [entries EXCEPT ![e].lastAccessed = now, ![e].isStreaming = streaming]
         r == Set(St(sessions, made), threadId, e, maxSessions, faults)
     IN /\ sessions' = r.st.sessions
        /\ entries' = r.st.entries
        /\ lastOp' = Seen(SetOp(threadId, e, r, St(sessions, made)))
  /\ nextObj' = nextObj + 1
  /\ lastRet' = NoRet
  /\ UNCHANGED <<configVars, exec, proc, expiryTimer, now, callVars>>

\* store.get(threadId)
StoreGet(threadId) ==
  /\ LET r == Get(Store, threadId, now) IN
       /\ sessions' = r.st.sessions
       /\ entries' = r.st.entries
       /\ lastOp' = Seen(GetOp(threadId, r.entry))
  /\ lastRet' = NoRet
  /\ UNCHANGED <<configVars, exec, proc, expiryTimer, now, nextObj, callVars>>

\* store.has(threadId)
StoreHas(threadId) ==
  /\ lastOp' = Seen(HasOp(threadId, Has(Store, threadId)))
  /\ lastRet' = NoRet
  /\ UNCHANGED <<storeVars, configVars, exec, proc, expiryTimer, now, nextObj, callVars>>

\* ------------------------------------------------------------ the pi tool
\* Variant of IsCapacityError: no message is taken for the capacity error.
IsCapacityErrorNever(err) == FALSE
\* msg.includes("Maximum sessions")
IsCapacityError(err) == Len(err) > 0 /\ err[1] = "Maximum sessions ("

\* args.cwd: not given, or a path.
CwdArgs == {"unset", "path"}
\* resolveModel(provider, modelId): getModel returns the model, returns
\* nothing, or throws.
ModelOutcomes == {"model", "none", "throws"}
ModelError(model) ==
  IF model = "none" THEN "Model not found" ELSE "Failed to resolve model"
\* createAgentSession rejects; or it resolves with a session and
\* subscribeEvents, that is session.subscribe(listener), throws or returns.
CreateOutcomes == {"rejects", "subscribeThrows", "session"}

\* The pi calls waiting for the import or for createAgentSession.
Starting == {o \in PiCall : pi[o].pc \in {"importing", "creating"}}

\* The handler from resolveModel to await createAgentSession(...), or to the
\* return of result.error.
PiResolved(o, model) ==
  IF model = "model"
  THEN /\ pi' = [pi EXCEPT ![o].pc = "creating"]
       /\ lastRet' = NoRet
  ELSE /\ pi' = [pi EXCEPT ![o].pc = "done"]
       /\ lastRet' = Ret("pi", o, ModelError(model))

\* The handler up to its first await: await import("node:fs") if args.cwd is
\* given, else that of createAgentSession.  Calls are numbered as they arrive.
PiStart(o, cwd) ==
  /\ pi[o].pc = "idle"
  /\ o = nextObj + 1
  /\ Cardinality(Starting) < MaxStarting
  /\ nextObj' = o
  /\ IF cwd = "path"
     THEN /\ pi' = [pi EXCEPT ![o].pc = "importing"]
          /\ lastRet' = NoRet
     ELSE \E model \in ModelOutcomes : PiResolved(o, model)
  /\ lastOp' = NoOp
  /\ UNCHANGED <<storeVars, configVars, exec, proc, expiryTimer, now, resolved, reply,
                 installOrder, startOrder>>

\* The continuation of the import: args.cwd is tested with existsSync and
\* statSync, then the model resolved.
PiCwdChecked(o, isDirectory) ==
  /\ pi[o].pc = "importing"
  /\ IF ~isDirectory
     THEN /\ pi' = [pi EXCEPT ![o].pc = "done"]
          /\ lastRet' = Ret("pi", o, "Invalid cwd")
     ELSE \E model \in ModelOutcomes : PiResolved(o, model)
  /\ lastOp' = NoOp
  /\ UNCHANGED <<storeVars, configVars, exec, proc, expiryTimer, now, nextObj, resolved,
                 reply, installOrder, startOrder>>

\* The settling of createAgentSession: the outer catch if it rejected; else
\* the thread id is drawn and the events subscribed, outside the inner try,
\* so that a throw of subscribe goes to the outer catch with the session left
\* as it is; else session.prompt is called.
PiCreated(o, outcome) ==
  /\ pi[o].pc = "creating"
  /\ IF outcome = "session"
     THEN /\ entries' = PromptStart(entries, o)
          /\ pi' = [pi EXCEPT ![o] = [pc |-> "prompting", session |-> TRUE]]
          /\ lastRet' = NoRet
     ELSE /\ entries' = entries
          /\ pi' = [pi EXCEPT ![o] = [pc |-> "done", session |-> outcome = "subscribeThrows"]]
          /\ lastRet' = Ret("pi", o, "Pi agent error")
  /\ lastOp' = NoOp
  /\ UNCHANGED <<sessions, configVars, exec, proc, expiryTimer, now, nextObj, resolved,
                 reply, installOrder, startOrder>>

\* The text of the pi tool's result after the prompt resolved.
PiResult(stored, hasText) ==
  IF ~stored /\ hasText THEN "warning: session not stored"
  ELSE IF ~hasText THEN "Agent completed but produced no text response."
  ELSE "thread_id"

\* The handler from the settling of session.prompt to its return.
PiPromptDone(o, outcome) ==
  /\ pi[o].pc = "prompting"
  /\ \E faults \in FaultChoices(EntrySet(sessions) \cup {o}) :
     LET ended == PromptEnd(entries, o) IN
     IF outcome \in {"throw", "textThrows"}
     THEN /\ entries' = DisposeSession(ended, o, faults).ents
          /\ sessions' = sessions
          /\ lastRet' = Ret("pi", o, "Pi agent error")
          /\ lastOp' = NoOp
     ELSE \E made \in {[ended EXCEPT ![o].lastAccessed = now, ![o].mutex = 0]} :
          \E r \in {Set(St(sessions, made), UUID(o), o, maxSessions, faults)} :
             /\ sessions' = r.st.sessions
             /\ entries' = IF r.threw /\ IsCapacityError(r.err)
                           THEN DisposeSession(r.st.entries, o, faults).ents
                           ELSE r.st.entries
             /\ lastRet' = Ret("pi", o, IF r.threw /\ ~IsCapacityError(r.err)
                                         THEN "Pi agent error"
                                         ELSE PiResult(~r.threw, outcome = "text"))
             /\ lastOp' = Seen(SetOp(UUID(o), o, r, St(sessions, made)))
  /\ pi' = [pi EXCEPT ![o].pc = "done"]
  /\ UNCHANGED <<configVars, exec, proc, expiryTimer, now, nextObj, resolved, reply,
                 installOrder, startOrder>>

\* ------------------------------------------------------------ the pi-reply tool
\* Variant of MutexResolved: the handler without the await.
MutexResolvedAlways(res, ticket) == TRUE
\* await previousMutex continues only once that promise is resolved.
MutexResolved(res, ticket) == ticket \in res
\* Variant of ReleaseMutex: the promise is never resolved.
ReleaseMutexLost(res, c) == res
\* releaseMutex()
ReleaseMutex(res, c) == res \cup {c}
\* Variant of PreviousMutex: one chain of tickets shared by every session.
PreviousMutexShared(ents, e) ==
  CHOOSE m \in {ents[o].mutex : o \in DOMAIN ents} :
    \A o \in DOMAIN ents : ents[o].mutex <= m
\* Variant of PreviousMutex: every call waits on Promise.resolve().
PreviousMutexInitial(ents, e) == 0
\* const previousMutex = entry.mutex
PreviousMutex(ents, e) == ents[e].mutex
\* Variant of StillStored: the handler without the re-check.
StillStoredUnchecked(st, threadId) == TRUE
\* The re-check after the wait: store.has(args.threadId)
StillStored(st, threadId) == Has(st, threadId)
\* Variant of Finally: the not-found return placed before the try block.
FinallyNotOnNotFound(res, c, exit) ==
  IF exit = "not-found" THEN res ELSE ReleaseMutex(res, c)
\* Variant of Finally: the release after the try block instead of in finally.
FinallyNotOnCatch(res, c, exit) == IF exit = "catch" THEN res ELSE ReleaseMutex(res, c)
\* finally { releaseMutex() }: runs on every way out of the try block, which
\* are the not-found return, the returns after the prompt, and the catch.
Finally(res, c, exit) == ReleaseMutex(res, c)

\* The handler up to await previousMutex: the lookup, and the ticket installed.
ReplyCall(c, threadId) ==
  /\ reply[c].pc = "idle"
  /\ \A d \in Reply : d < c => reply[d].pc # "idle"
  /\ \E r \in {Get(Store, threadId, now)} :
       /\ sessions' = r.st.sessions
       /\ IF r.entry = 0
          THEN /\ entries' = r.st.entries
               /\ reply' = [reply EXCEPT ![c] =
                    [IdleReply EXCEPT !.pc = "done", !.threadId = threadId]]
               /\ lastRet' = Ret("pi-reply", c, "Session not found")
               /\ UNCHANGED installOrder
          ELSE /\ entries' = [r.st.entries EXCEPT ![r.entry].mutex = c]
               /\ reply' = [reply EXCEPT ![c] =
                    [pc |-> "waiting", threadId |-> threadId, entry |-> r.entry,
                     previousMutex |-> PreviousMutex(r.st.entries, r.entry)]]
               /\ lastRet' = NoRet
               /\ installOrder' = [installOrder EXCEPT ![r.entry] = Append(@, c)]
  /\ lastOp' = NoOp
  /\ UNCHANGED <<configVars, exec, proc, expiryTimer, now, nextObj, resolved, pi, startOrder>>

\* The continuation of await previousMutex: the re-check, then either the
\* not-found return (through finally) or the call of session.prompt.
ReplyWake(c) ==
  /\ reply[c].pc = "waiting"
  /\ MutexResolved(resolved, reply[c].previousMutex)
  /\ IF ~StillStored(Store, reply[c].threadId)
     THEN /\ reply' = [reply EXCEPT ![c].pc = "done"]
          /\ lastRet' = Ret("pi-reply", c, "Session not found: evicted while waiting")
          /\ resolved' = Finally(resolved, c, "not-found")
          /\ UNCHANGED <<entries, startOrder>>
     ELSE /\ entries' = PromptStart(entries, reply[c].entry)
          /\ reply' = [reply EXCEPT ![c].pc = "prompting"]
          /\ startOrder' = [startOrder EXCEPT ![reply[c].entry] = Append(@, c)]
          /\ lastRet' = NoRet
          /\ UNCHANGED resolved
  /\ lastOp' = NoOp
  /\ UNCHANGED <<sessions, configVars, exec, proc, expiryTimer, now, nextObj, pi, installOrder>>

\* The text of the pi-reply tool's result once the prompt settled.
ReplyResult(outcome) ==
  IF outcome \in {"throw", "textThrows"} THEN "Pi agent error"
  ELSE IF outcome = "notext" THEN "Agent completed but produced no text response."
  ELSE "text"

\* The continuation of await session.prompt: the catch if it rejected; else
\* the timestamp refresh, then the result or, if getLastAssistantText throws,
\* the catch; then finally.
ReplyPromptDone(c, outcome) ==
  /\ reply[c].pc = "prompting"
  /\ LET e == reply[c].entry
         ended == PromptEnd(entries, e)
     IN entries' = IF outcome = "throw" THEN ended
                   ELSE [ended EXCEPT ![e].lastAccessed = now]
  /\ reply' = [reply EXCEPT ![c].pc = "done"]
  /\ lastRet' = Ret("pi-reply", c, ReplyResult(outcome))
  /\ resolved' = Finally(resolved, c, IF outcome \in {"throw", "textThrows"}
                                       THEN "catch" ELSE "return")
  /\ lastOp' = NoOp
  /\ UNCHANGED <<sessions, configVars, exec, proc, expiryTimer, now, nextObj, pi,
                 installOrder, startOrder>>

\* ------------------------------------------------------------ configuration and start
\* isNaN(n) || n < least
Invalid(n, least) == IsNaN(n) \/ Below(n, least)
\* loadConfig(): the checks of PI_MCP_MAX_SESSIONS and
\* PI_MCP_SESSION_IDLE_TIMEOUT, which follow those of the other variables
\* (thinking level, working directory, tools); each check throws.  sandbox is
\* process.env.PI_MCP_SANDBOX === "true".
LoadConfig(e) ==
  LET maxS == ParseInt(Nullish(e.maxSessions, <<50, 48>>))
      sessionIdleTimeout == ParseInt(Nullish(e.idleTimeout, <<51, 54, 48, 48>>))
  IN IF ~e.others THEN [threw |-> TRUE, err |-> "Invalid configuration"]
     ELSE IF Invalid(maxS, 1) THEN [threw |-> TRUE, err |-> "Invalid PI_MCP_MAX_SESSIONS"]
     ELSE IF Invalid(sessionIdleTimeout, 0)
          THEN [threw |-> TRUE, err |-> "Invalid PI_MCP_SESSION_IDLE_TIMEOUT"]
     ELSE [threw |-> FALSE, err |-> "", sandbox |-> e.sandbox = <<"true">>,
           maxSessions |-> maxS, sessionIdleTimeout |-> sessionIdleTimeout]

\* process.exit(1): from main().catch, from initSandbox, or from node when a
\* rejection nobody handles finds no 'unhandledRejection' listener.
ExitOne(p) == [p EXCEPT !.phase = "exited", !.exitCode = <<1>>]
\* What main() leaves alone while it starts.
startVars == <<storeVars, watch, flaky, env, exec, now, nextObj, callVars>>
\* main() of index.ts up to its first await: loadConfig(), then the call of
\* initSandbox(config).  What loadConfig throws rejects main(), whose .catch
\* logs it and calls process.exit(1).
Main ==
  /\ proc.phase = "start"
  /\ \E config \in {LoadConfig(env)} :
       proc' = IF config.threw THEN ExitOne(proc)
               ELSE [proc EXCEPT !.phase = "sandbox"]
  /\ lastOp' = NoOp
  /\ lastRet' = NoRet
  /\ UNCHANGED <<maxSessions, idleTimeoutMs, expiryTimer>>
  /\ UNCHANGED startVars

\* How initSandbox(config) ends: it returns (at once when config.sandbox is
\* false), or it calls process.exit(1), which it does only with
\* config.sandbox, when the runtime cannot be imported or its
\* checkDependencies() or initialize() rejects.
SandboxOutcomes(config) == IF config.sandbox THEN {"ok", "exit"} ELSE {"ok"}
\* How server.connect(transport) ends.
ConnectOutcomes == {"ok", "rejects"}
\* main() from await initSandbox(config) to await server.connect(transport):
\* new SessionStore(config.maxSessions, config.sessionIdleTimeout), the
\* server and its tools, transport.onclose, the call of connect.  config is
\* the constant main() read before the await.  The store keeps the numbers
\* it is given, the timeout times 1000; the timer is scheduled if that is
\* positive.
SandboxInitialized(outcome) ==
  /\ proc.phase = "sandbox"
  /\ \E config \in {LoadConfig(env)} :
       /\ outcome \in SandboxOutcomes(config)
       /\ IF outcome = "exit"
          THEN /\ proc' = ExitOne(proc)
               /\ UNCHANGED <<maxSessions, idleTimeoutMs, expiryTimer>>
          ELSE \E ms \in {Times(config.sessionIdleTimeout, MsPerSecond)} :
               /\ proc' = [proc EXCEPT !.phase = "connecting"]
               /\ maxSessions' = Value(config.maxSessions)
               /\ idleTimeoutMs' = Value(ms)
               /\ expiryTimer' = IF IsExact(ms) THEN TimerScheduled(Value(ms))
                                 ELSE ~IsNaN(ms) /\ ms.sign > 0
  /\ UNCHANGED <<lastOp, lastRet>>
  /\ UNCHANGED startVars

\* main() after await server.connect(transport): let shutdownStarted = false
\* and the handlers of SIGINT, SIGTERM and unhandledRejection are installed;
\* the triggers received and the rejections not yet reported stay as they
\* are.  A connect that rejects rejects main(), whose .catch calls
\* process.exit(1), the store built.
Connected(outcome) ==
  /\ proc.phase = "connecting"
  /\ proc' = IF outcome = "rejects" THEN ExitOne(proc)
             ELSE [proc EXCEPT !.phase = "running", !.shutdownStarted = FALSE]
  /\ UNCHANGED <<maxSessions, idleTimeoutMs, expiryTimer, lastOp, lastRet>>
  /\ UNCHANGED startVars

\* The transport closes while main() awaits connect: transport.onclose calls
\* shutdown(), which reads shutdownStarted before its let has run and throws
\* a ReferenceError; the promise of shutdown() rejects and nobody handles
\* it.  The body of shutdown does not run: store.clear() is not called.
ClosedDuringConnect ==
  /\ proc.phase = "connecting"
  /\ proc.triggers < MaxTriggers
  /\ proc.unhandled < MaxUnhandled
  /\ proc' = [proc EXCEPT !.triggers = @ + 1, !.unhandled = @ + 1]
  /\ UNCHANGED <<maxSessions, idleTimeoutMs, expiryTimer, lastOp, lastRet>>
  /\ UNCHANGED startVars

\* node reports the rejection while main() still awaits connect: no
\* 'unhandledRejection' listener is installed yet (index.ts installs it after
\* the await), so node raises the rejection as an uncaught exception and
\* ends the process with code 1.
UncaughtRejection ==
  /\ proc.phase = "connecting"
  /\ proc.unhandled > 0
  /\ proc' = ExitOne(proc)
  /\ UNCHANGED <<maxSessions, idleTimeoutMs, expiryTimer, lastOp, lastRet>>
  /\ UNCHANGED startVars

\* ------------------------------------------------------------ the event streamer
\* The events the listener of subscribeEvents forwards; the switch has no
\* default, so any other event of the session is ignored.
EventTypes ==
  {"agent_start", "agent_end", "tool_execution_start", "tool_execution_end",
   "auto_compaction_start", "auto_retry_start"}
IgnoredEvent == "other"
\* The level each forwarded event is logged at.
Level(type) ==
  CASE type \in {"agent_start", "agent_end", "auto_compaction_start"} -> "info"
    [] type \in {"tool_execution_start", "tool_execution_end"} -> "debug"
    [] type = "auto_retry_start" -> "warning"
\* What server.server.sendLoggingMessage(...) of the MCP SDK can do: return a
\* promise that resolves, throw an Error, throw a TypeError or RangeError, or
\* return a promise that rejects later.
SinkOutcomes == {"sent", "throws", "throwsTypeError", "rejects"}
Quiet == [escaped |-> FALSE, logged |-> FALSE, unhandled |-> 0]
\* safeSendLog(server, level, data): the call in try/catch.  The catch takes
\* what the call throws and logs a TypeError or RangeError; the promise the
\* call returns is neither awaited nor given a handler, so its rejection is
\* an unhandled rejection of the process.
SafeSendLog(level, sink) ==
  [escaped |-> FALSE,
   logged |-> sink = "throwsTypeError",
   unhandled |-> IF sink = "rejects" THEN 1 ELSE 0]
\* listener(event)
Listener(type, sink) ==
  IF type \in EventTypes THEN SafeSendLog(Level(type), sink) ELSE Quiet

\* The session of entry o emits an event while a prompt on it runs and the
\* listener is subscribed; sink is what the logging sink does with it.
AgentEvent(o, type, sink) ==
  /\ entries[o].isStreaming
  /\ entries[o].unsubscribed = 0
  /\ LET r == Listener(type, sink) IN
       /\ proc.unhandled + r.unhandled <= MaxUnhandled
       /\ proc' = [proc EXCEPT !.escaped = r.escaped, !.unhandled = @ + r.unhandled]
  /\ lastOp' = NoOp
  /\ lastRet' = NoRet
  /\ UNCHANGED <<storeVars, configVars, exec, expiryTimer, now, nextObj, callVars>>

\* index.ts: process.on("unhandledRejection", ...) logs and calls process.exit(1).
UnhandledRejection ==
  /\ proc.phase = "running"
  /\ proc.unhandled > 0
  /\ proc' = [proc EXCEPT !.phase = "exited", !.exitCode = <<1>>]
  /\ lastOp' = NoOp
  /\ lastRet' = NoRet
  /\ UNCHANGED <<storeVars, configVars, exec, expiryTimer, now, nextObj, callVars>>

\* ------------------------------------------------------------ the sandboxed exec
\* Everything but the exec call.
serverVars ==
  <<storeVars, configVars, proc, expiryTimer, now, nextObj, callVars, lastOp, lastRet>>
KillGraceMs == 5000
\* options.timeout: unset (0) or a number of milliseconds.
ExecTimeouts == {0, TickMs, 2 * TickMs}
\* The code of 'close': a number, or null (<<>>) for a child ended by a signal.
ExitCodes == {<<0>>, <<2>>, <<>>}
\* What child.kill(signal) of node:child_process does: the signal is
\* delivered; the process is gone already; or the signal cannot be delivered
\* and kill emits 'error' on the child before it returns.
KillOutcomes(child) == IF child = "alive" THEN {"delivered", "error"} ELSE {"gone"}
\* What spawn of node:child_process does: it returns the child, which may
\* emit 'error' later; or it throws, as for a command too long for execve
\* (E2BIG) or one with a NUL byte.
SpawnOutcomes == {"ok", "throw"}
\* An exception leaving the async function rejects the promise it returned.
Reject(promise) == IF promise = <<>> THEN <<"rejected">> ELSE promise
\* resolve(value): settles a pending promise and does nothing to a settled one.
Resolve(promise, exitCode) == IF promise = <<>> THEN <<"resolved", exitCode>> ELSE promise
\* if (handle) clearTimeout(handle)
ClearTimeout(handle) == IF handle = "armed" THEN "cleared" ELSE handle
Emitted(x) == {x.events[i].type : i \in 1 .. Len(x.events)}
Event(x, type) == [x EXCEPT !.events = Append(@, [type |-> type, at |-> x.clock])]
\* child.on("error", ...): both timers cleared, resolve({ exitCode: 1 }).
OnError(x) ==
  [Event(x, "error") EXCEPT !.timeoutHandle = ClearTimeout(@),
                            !.killHandle = ClearTimeout(@),
                            !.promise = Resolve(@, <<1>>)]
\* try { ...annotateStderrWithSandboxFailures... } catch (err) { console.error }
AnnotationEscapes(threw) == FALSE
\* child.on("close", ...): both timers cleared, the stderr annotated if there
\* is any, resolve({ exitCode: code }).
OnClose(x, code, annotate) ==
  LET threw == x.stderr /\ annotate = "throw"
      closed == [Event(x, "close") EXCEPT !.timeoutHandle = ClearTimeout(@),
                                          !.killHandle = ClearTimeout(@),
                                          !.child = "closed", !.code = code,
                                          !.annotateThrew = threw]
  IN IF AnnotationEscapes(threw) THEN closed
     ELSE [closed EXCEPT !.promise = Resolve(@, code)]
\* child.kill(signal)
Kill(x, signal, outcome) ==
  LET sent == [x EXCEPT !.signals =
                 Append(@, [signal |-> signal, at |-> x.clock, after |-> Emitted(x)])]
  IN IF outcome = "error" THEN OnError(sent) ELSE sent

\* exec(command, cwd, options) up to await SandboxManager.wrapWithSandbox.
ExecCall(timeout) ==
  /\ exec.at = "idle"
  /\ exec' = [exec EXCEPT !.at = "wrapping", !.timeout = timeout]
  /\ UNCHANGED serverVars

\* The continuation of the await: the catch returns { exitCode: 1 }; else the
\* child is spawned, the timeout armed if one is set, and the promise returned.
ExecWrapped(outcome, spawned) ==
  /\ exec.at = "wrapping"
  /\ exec' =
       IF outcome = "fail"
       THEN [exec EXCEPT !.at = "returned", !.wrapFailed = TRUE,
                         !.promise = Resolve(@, <<1>>)]
       ELSE IF spawned = "throw"
       THEN [exec EXCEPT !.at = "returned", !.promise = Reject(@)]
       ELSE [exec EXCEPT !.at = "returned", !.child = "alive",
                         !.spawnedAt = exec.clock,
                         !.timeoutHandle = IF exec.timeout # 0 THEN "armed" ELSE @,
                         !.timeoutAt = exec.clock + exec.timeout]
  /\ UNCHANGED serverVars

\* The child writes to stderr.
ChildStderr ==
  /\ exec.child \in {"alive", "exited"}
  /\ ~exec.stderr
  /\ exec' = [exec EXCEPT !.stderr = TRUE]
  /\ UNCHANGED serverVars

\* The 'error' events the child has emitted.
Errors(x) == {i \in 1 .. Len(x.events) : x.events[i].type = "error"}
\* The child emits 'error': the spawn failed, or options.signal aborted.  The
\* handler runs at every 'error', one that follows a failed kill included.
ChildError ==
  /\ exec.child = "alive"
  /\ Cardinality(Errors(exec)) < MaxChildErrors
  /\ exec' = OnError(exec)
  /\ UNCHANGED serverVars

\* The child process ends; its stdio is still open.
ChildExits ==
  /\ exec.child = "alive"
  /\ exec' = [exec EXCEPT !.child = "exited"]
  /\ UNCHANGED serverVars

\* The child's stdio has closed: 'close' is emitted.
ChildCloses(code, annotate) ==
  /\ exec.child = "exited"
  /\ exec' = OnClose(exec, code, annotate)
  /\ UNCHANGED serverVars

\* The callback of the timeout: SIGTERM, then the grace timer is armed.
TimeoutFires(outcome) ==
  /\ exec.timeoutHandle = "armed"
  /\ exec.clock >= exec.timeoutAt
  /\ LET killed == Kill([exec EXCEPT !.timeoutHandle = "fired"], "SIGTERM", outcome) IN
     exec' = [killed EXCEPT !.killHandle = "armed",
                            !.killAt = exec.clock + KillGraceMs]
  /\ UNCHANGED serverVars

\* The callback of the grace timer: SIGKILL.
KillFires(outcome) ==
  /\ exec.killHandle = "armed"
  /\ exec.clock >= exec.killAt
  /\ exec' = Kill([exec EXCEPT !.killHandle = "fired"], "SIGKILL", outcome)
  /\ UNCHANGED serverVars

\* Time passes while the child exists.
ExecTick ==
  /\ exec.child \in {"alive", "exited"}
  /\ exec.clock < MaxExecTicks * TickMs
  /\ exec' = [exec EXCEPT !.clock = @ + TickMs]
  /\ UNCHANGED serverVars

\* ------------------------------------------------------------ shutdown
\* Variant of AlreadyStarted: shutdown() without its guard.
AlreadyStartedNever(flag) == FALSE
\* if (shutdownStarted) return
AlreadyStarted(flag) == flag
\* try { await step() } catch (err) { console.error(...) }: what the
\* statement passes on of the step's outcome.
Guarded(outcome) == "ok"
\* resetSandbox(): SandboxManager.reset() is awaited only if the sandbox
\* module was loaded, in a try/catch of its own.
ResetSandbox(loaded, outcome) == IF loaded THEN Guarded(outcome) ELSE "ok"
\* The triggers of shutdown(): the two signal handlers and transport.onclose.
Triggers == {"SIGINT", "SIGTERM", "close"}
StepOutcomes == {"ok", "fail"}
\* What shutdown does to the process once a step's failure has left its try
\* block: the async function rejects, and nothing handles the rejection.
Rejected(p) == [p EXCEPT !.at = "rejected", !.unhandled = @ + 1]

\* shutdown() up to its first await: the guard, the flag, and store.clear(),
\* which is synchronous and runs inside the call.
Trigger(source) ==
  /\ proc.phase = "running"
  /\ proc.triggers < MaxTriggers
  /\ IF AlreadyStarted(proc.shutdownStarted)
     THEN /\ proc' = [proc EXCEPT !.triggers = @ + 1]
          /\ lastOp' = NoOp
          /\ UNCHANGED <<storeVars, expiryTimer>>
     ELSE \E faults \in FaultChoices(EntrySet(sessions)) :
          \E r \in {Clear(Store, expiryTimer, faults)} :
          \E entered \in {[proc EXCEPT !.triggers = @ + 1, !.shutdownStarted = TRUE,
                                       !.bodies = @ + 1, !.log = Append(@, "clear"),
                                       !.failed = IF r.thrown = {} THEN @
                                                  ELSE @ \cup {"clear"}]} :
             /\ expiryTimer' = r.timer
             /\ sessions' = r.st.sessions
             /\ entries' = r.st.entries
             /\ lastOp' = Seen(DisposalOp("clear", "", r))
             /\ proc' = IF Guarded(IF r.threw THEN "fail" ELSE "ok") = "fail"
                        THEN Rejected(entered)
                        ELSE [entered EXCEPT !.at = "clear"]
  /\ lastRet' = NoRet
  /\ UNCHANGED <<configVars, exec, now, nextObj, callVars>>

\* The continuation of await store.clear(): resetSandbox() is called.
ShutdownReset ==
  /\ proc.phase = "running"
  /\ proc.at = "clear"
  /\ proc' = [proc EXCEPT !.at = "reset", !.log = Append(@, "resetSandbox")]
  /\ lastOp' = NoOp
  /\ lastRet' = NoRet
  /\ UNCHANGED <<storeVars, configVars, exec, expiryTimer, now, nextObj, callVars>>

\* The continuation of await resetSandbox(): server.close() is called, which
\* may close the transport and so call transport.onclose, that is shutdown().
ShutdownClose(loaded, outcome, raised) ==
  /\ proc.phase = "running"
  /\ proc.at = "reset"
  /\ proc' =
       LET reset == [proc EXCEPT !.failed = IF loaded /\ outcome = "fail"
                                            THEN @ \cup {"resetSandbox"} ELSE @]
       IN
       IF Guarded(ResetSandbox(loaded, outcome)) = "fail" THEN Rejected(reset)
       ELSE LET closing == [reset EXCEPT !.at = "close", !.log = Append(@, "close")] IN
            IF ~raised THEN closing
            ELSE IF AlreadyStarted(closing.shutdownStarted)
            THEN [closing EXCEPT !.reentered = TRUE]
            ELSE [closing EXCEPT !.reentered = TRUE, !.bodies = @ + 1,
                                 !.log = Append(@, "clear")]
  /\ lastOp' = NoOp
  /\ lastRet' = NoRet
  /\ UNCHANGED <<storeVars, configVars, exec, expiryTimer, now, nextObj, callVars>>

\* The continuation of await server.close(): process.exit(0).
ShutdownExit(outcome) ==
  /\ proc.phase = "running"
  /\ proc.at = "close"
  /\ proc' =
       LET closed == [proc EXCEPT !.failed = IF outcome = "fail"
                                             THEN @ \cup {"close"} ELSE @]
       IN
       IF Guarded(outcome) = "fail" THEN Rejected(closed)
       ELSE [closed EXCEPT !.at = "exit", !.log = Append(@, "exit"),
                           !.phase = "exited", !.exitCode = <<0>>]
  /\ lastOp' = NoOp
  /\ lastRet' = NoRet
  /\ UNCHANGED <<storeVars, configVars, exec, expiryTimer, now, nextObj, callVars>>

\* ------------------------------------------------------------ specifications
Next ==
  \/ \E o \in PiCall, cwd \in CwdArgs : PiStart(o, cwd)
  \/ \E o \in PiCall, isDirectory \in BOOLEAN : PiCwdChecked(o, isDirectory)
  \/ \E o \in PiCall, outcome \in CreateOutcomes : PiCreated(o, outcome)
  \/ \E o \in PiCall, outcome \in PromptOutcomes : PiPromptDone(o, outcome)
  \/ \E c \in Reply, threadId \in ThreadIds : ReplyCall(c, threadId)
  \/ \E c \in Reply : ReplyWake(c)
  \/ \E c \in Reply, outcome \in PromptOutcomes : ReplyPromptDone(c, outcome)
  \/ \E threadId \in ThreadIds : DeleteCall(threadId)
  \/ ClearCall
  \/ SweepTick
  \/ Tick(ToolTickMs)

Spec == Init /\ [][Next]_vars

NextStore ==
  \/ \E threadId \in StoreIds, streaming \in BOOLEAN : StoreSet(threadId, streaming)
  \/ \E threadId \in StoreIds : StoreGet(threadId)
  \/ \E threadId \in StoreIds : StoreHas(threadId)
  \/ \E threadId \in StoreIds : DeleteCall(threadId)
  \/ ClearCall
  \/ SweepTick
  \/ Tick(TickMs)

SpecStore == InitStore /\ [][NextStore]_vars

\* delete, on stores filled by set.
NextDelete ==
  \/ \E threadId \in StoreIds, streaming \in BOOLEAN : StoreSet(threadId, streaming)
  \/ \E threadId \in StoreIds : DeleteCall(threadId)

SpecDelete == InitDelete /\ [][NextDelete]_vars

\* Disposals by delete and by eviction, and the promises of their abort()
\* calls settling afterwards.
NextAbort ==
  \/ \E threadId \in StoreIds, streaming \in BOOLEAN : StoreSet(threadId, streaming)
  \/ \E threadId \in StoreIds : DeleteCall(threadId)
  \/ \E o \in Obj, how \in {"resolve", "reject"} : AbortSettles(o, how)

SpecAbort == InitAbort /\ [][NextAbort]_vars

\* The tools with the sessions' events forwarded to the logging sink.  Node
\* reports a rejection nobody handles in a later turn of the event loop,
\* after the continuations that were ready; nothing runs once the process
\* has exited.
NextEvents ==
  \/ /\ proc.phase = "running"
     /\ \/ \E o \in PiCall, cwd \in CwdArgs : PiStart(o, cwd)
        \/ \E o \in PiCall, isDirectory \in BOOLEAN : PiCwdChecked(o, isDirectory)
        \/ \E o \in PiCall, outcome \in CreateOutcomes : PiCreated(o, outcome)
        \/ \E o \in PiCall, outcome \in PromptOutcomes : PiPromptDone(o, outcome)
        \/ \E c \in Reply, threadId \in ThreadIds : ReplyCall(c, threadId)
        \/ \E c \in Reply : ReplyWake(c)
        \/ \E c \in Reply, outcome \in PromptOutcomes : ReplyPromptDone(c, outcome)
        \/ \E o \in PiCall, type \in EventTypes \cup {IgnoredEvent}, sink \in SinkOutcomes :
             AgentEvent(o, type, sink)
  \/ UnhandledRejection

SpecEvents == Init /\ [][NextEvents]_vars

\* One call of the sandboxed exec, its child and its timers.
NextExec ==
  \/ \E timeout \in ExecTimeouts : ExecCall(timeout)
  \/ \E outcome \in {"ok", "fail"}, spawned \in SpawnOutcomes : ExecWrapped(outcome, spawned)
  \/ ChildStderr
  \/ ChildError
  \/ ChildExits
  \/ \E code \in ExitCodes, annotate \in {"ok", "throw"} : ChildCloses(code, annotate)
  \/ \E outcome \in KillOutcomes(exec.child) : TimeoutFires(outcome)
  \/ \E outcome \in KillOutcomes(exec.child) : KillFires(outcome)
  \/ ExecTick

SpecExec == Init /\ [][NextExec]_vars

\* The server from the await of connect on, filled by pi calls and shut down
\* by signals and transport closes; nothing runs once the process has
\* exited.  The rejection of a shutdown() called during connect is reported
\* at the end of the turn in which it happened: the continuation of the
\* await may run before the report, a signal, a message or a timer may not.
NextShutdown ==
  \/ /\ proc.phase = "running"
     /\ proc.unhandled = 0
     /\ \/ \E o \in PiCall, cwd \in CwdArgs : PiStart(o, cwd)
        \/ \E o \in PiCall, isDirectory \in BOOLEAN : PiCwdChecked(o, isDirectory)
        \/ \E o \in PiCall, outcome \in CreateOutcomes : PiCreated(o, outcome)
        \/ \E o \in PiCall, outcome \in PromptOutcomes : PiPromptDone(o, outcome)
  \/ \E outcome \in ConnectOutcomes : Connected(outcome)
  \/ ClosedDuringConnect
  \/ UncaughtRejection
  \/ UnhandledRejection
  \/ /\ proc.unhandled = 0
     /\ \E source \in Triggers : Trigger(source)
  \/ /\ proc.unhandled = 0
     /\ ShutdownReset
  \/ /\ proc.unhandled = 0
     /\ \E loaded \in BOOLEAN, outcome \in StepOutcomes, raised \in BOOLEAN :
          ShutdownClose(loaded, outcome, raised)
  \/ /\ proc.unhandled = 0
     /\ \E outcome \in StepOutcomes : ShutdownExit(outcome)

SpecShutdown == InitShutdown /\ [][NextShutdown]_vars

\* The start of the process in every environment.
NextConfig ==
  \/ Main
  \/ \E outcome \in {"ok", "exit"} : SandboxInitialized(outcome)
  \/ \E outcome \in ConnectOutcomes : Connected(outcome)
  \/ ClosedDuringConnect
  \/ UncaughtRejection
  \/ UnhandledRejection

SpecConfig == InitConfig /\ [][NextConfig]_vars

\* clear and the timer, on stores filled by set.
NextClear ==
  \/ \E threadId \in StoreIds, streaming \in BOOLEAN : StoreSet(threadId, streaming)
  \/ ClearCall
  \/ SweepTick
  \/ Tick(TickMs)

SpecClear == InitClear /\ [][NextClear]_vars

\* The sweep, on stores whose records set puts and get refreshes as time passes.
NextSweep ==
  \/ \E threadId \in StoreIds, streaming \in BOOLEAN : StoreSet(threadId, streaming)
  \/ \E threadId \in StoreIds : StoreGet(threadId)
  \/ SweepTick
  \/ Tick(TickMs)

SpecSweep == InitSweep /\ [][NextSweep]_vars

\* get and has, on stores filled by set as time passes.
NextLookup ==
  \/ \E threadId \in StoreIds, streaming \in BOOLEAN : StoreSet(threadId, streaming)
  \/ \E threadId \in StoreIds : StoreGet(threadId)
  \/ \E threadId \in StoreIds : StoreHas(threadId)
  \/ \E threadId \in StoreIds : DeleteCall(threadId)
  \/ Tick(TickMs)

SpecLookup == InitLookup /\ [][NextLookup]_vars

\* The event loop runs every continuation that is ready, and every
\* session.prompt call settles.
FairSpec ==
  /\ Spec
  /\ \A c \in Reply : WF_vars(ReplyWake(c))
  /\ \A c \in Reply : WF_vars(\E outcome \in PromptOutcomes : ReplyPromptDone(c, outcome))

\* ------------------------------------------------------------ properties
Pre == lastOp.pre
\* The entries of a store that are not streaming.
IdleEntries(st) == {e \in EntrySet(st.sessions) : ~st.entries[e].isStreaming}
\* The last step was a set with a new id on a store holding maxSessions records.
SetAtCapacity ==
  /\ lastOp.op = "set"
  /\ Len(Pre.sessions) = maxSessions
  /\ lastOp.id \notin KeySet(Pre.sessions)
\* The pi-reply calls whose session.prompt on entry o is in flight.
InFlight(o) == {c \in Reply : reply[c].pc = "prompting" /\ reply[c].entry = o}
IsPrefix(s, t) == Len(s) <= Len(t) /\ \A i \in 1 .. Len(s) : s[i] = t[i]
NotFoundAfterWait == "Session not found: evicted while waiting"

\* C1: a store built with maxSessions >= 1 never holds more than maxSessions
\* records, after any sequence of set (throwing ones included), get, has,
\* delete, clear and sweep ticks.
C1_SizeWithinCapacity == Len(sessions) <= maxSessions
C1_Witness == lastOp.op = "set" /\ lastOp.threw /\ Len(sessions) = maxSessions

\* C2: at most one session.prompt call is in flight on any session, under any
\* interleaving of pi-reply calls on its thread id.
C2_OnePromptInFlight ==
  \A o \in Obj :
    Cardinality(InFlight(o)) + (IF o \in PiCall /\ pi[o].pc = "prompting" THEN 1 ELSE 0) <= 1
C2_Witness ==
  \E c, d \in Reply :
    /\ reply[c].pc = "prompting" /\ reply[d].pc = "waiting"
    /\ reply[c].entry = reply[d].entry

\* C3: on one thread id the calls start session.prompt in the order in which
\* they installed their tickets, and a call starts it only after every call
\* that installed before it has released its ticket.
C3_PromptsInArrivalOrder ==
  \A o \in Obj :
    /\ IsPrefix(startOrder[o], installOrder[o])
    /\ \A i \in 1 .. Len(startOrder[o]) :
         \A j \in 1 .. Len(installOrder[o]) :
           (j < i) => installOrder[o][j] \in resolved
C3_Witness ==
  \E o \in Obj :
    /\ Len(startOrder[o]) >= 2
    /\ reply[startOrder[o][2]].previousMutex = startOrder[o][1]

\* C4: a pi-reply call that wakes from its wait when its session is no longer
\* in the store returns the 'Session not found' error in that step and calls
\* neither session.prompt nor session.getLastAssistantText.
C4_GoneWhileWaiting ==
  [][\A c \in Reply :
       (reply[c].pc = "waiting" /\ ~Has(Store, reply[c].threadId) /\ reply'[c].pc # "waiting")
       => /\ lastRet' = Ret("pi-reply", c, NotFoundAfterWait)
          /\ reply'[c].pc = "done"
          /\ startOrder' = startOrder
          /\ entries' = entries]_vars
C4_Witness ==
  /\ lastRet.tool = "pi-reply"
  /\ lastRet.result = NotFoundAfterWait
  /\ \E o \in Obj : entries[o].disposed > 0 /\ lastRet.call \in
       {installOrder[o][i] : i \in 1 .. Len(installOrder[o])}

\* C5: every pi-reply call that installed a ticket has resolved it once it
\* has returned, whatever the exit path, so a waiter behind a call that has
\* returned is free to proceed.
C5_TicketReleasedOnExit ==
  \A c \in Reply :
    /\ (reply[c].pc = "done" /\ reply[c].entry # 0) => c \in resolved
    /\ (reply[c].pc = "waiting" /\ reply[c].previousMutex # 0
          /\ reply[reply[c].previousMutex].pc = "done")
       => MutexResolved(resolved, reply[c].previousMutex)
C5_Witness ==
  /\ lastRet.tool = "pi-reply" /\ lastRet.result = "Pi agent error"
  /\ \E d \in Reply : reply[d].pc = "waiting" /\ reply[d].previousMutex = lastRet.call

\* C6: every pi-reply call that has started eventually returns, callers whose
\* session is removed while they wait included, given that every
\* session.prompt call settles.
C6_EveryCallReturns ==
  \A c \in Reply : (reply[c].pc \in {"waiting", "prompting"}) ~> (reply[c].pc = "done")
C6_Witness ==
  \E c \in Reply :
    /\ reply[c].pc = "waiting"
    /\ ~Has(Store, reply[c].threadId)
    /\ reply[c].previousMutex \notin resolved

\* C7: set with a new id on a store that holds maxSessions records, one of
\* them not streaming, removes exactly one record, the one with the smallest
\* lastAccessed among those not streaming; the new id is present afterwards
\* and the size is still maxSessions.
C7_EvictsOldestIdle ==
  (SetAtCapacity /\ IdleEntries(Pre) # {}) =>
    /\ ~lastOp.threw
    /\ lastOp.victim \in IdleEntries(Pre)
    /\ \A e \in IdleEntries(Pre) :
         Pre.entries[lastOp.victim].lastAccessed <= Pre.entries[e].lastAccessed
    /\ EntrySet(sessions) = (EntrySet(Pre.sessions) \ {lastOp.victim}) \cup {lastOp.entry}
    /\ MapGet(sessions, lastOp.id) = lastOp.entry
    /\ Len(sessions) = maxSessions

\* C8: a capacity eviction in set invokes unsubscribe, abort and dispose on
\* the evicted record only; every other record stays in the store under its
\* id, with nothing invoked on it and its lastAccessed and mutex unchanged.
C8_EvictionTouchesVictimOnly ==
  (lastOp.op = "set" /\ lastOp.victim # 0) =>
    LET v == lastOp.victim IN
    /\ entries[v].unsubscribed = Pre.entries[v].unsubscribed + 1
    /\ entries[v].aborted = Pre.entries[v].aborted + 1
    /\ entries[v].disposed = Pre.entries[v].disposed + 1
    /\ \A i \in 1 .. Len(Pre.sessions) :
         LET r == Pre.sessions[i] IN
         r.entry # v =>
           /\ MapGet(sessions, r.id) = r.entry
           /\ entries[r.entry] = Pre.entries[r.entry]
    /\ \A o \in Obj : o # v => entries[o] = Pre.entries[o]
C8_Witness ==
  /\ lastOp.op = "set" /\ lastOp.victim # 0
  /\ \E i \in 1 .. Len(Pre.sessions) : Pre.sessions[i].entry # lastOp.victim

\* C9: the eviction that store.set makes for capacity never removes a session
\* that is streaming, that is, one with a prompt in flight.
C9_NeverEvictsStreaming ==
  (lastOp.op = "set" /\ lastOp.victim # 0) =>
    /\ ~Pre.entries[lastOp.victim].isStreaming
    /\ InFlight(lastOp.victim) = {}
    /\ \A c \in Reply :
         (reply[c].pc = "prompting" /\ Has(Pre, reply[c].threadId))
         => Has(Store, reply[c].threadId)
C9_Witness ==
  /\ lastOp.op = "set" /\ lastOp.victim # 0
  /\ \E c \in Reply : reply[c].pc = "prompting" /\ Has(Store, reply[c].threadId)

\* C10: set with a new id on a store that holds maxSessions records, all of
\* them streaming, throws an error naming the configured limit and leaves the
\* store as it was: nothing inserted, nothing removed, nothing released.
C10_ThrowsWhenAllStreaming ==
  (SetAtCapacity /\ IdleEntries(Pre) = {}) =>
    /\ lastOp.threw
    /\ lastOp.err[1] = "Maximum sessions ("
    /\ lastOp.err[2] = maxSessions
    /\ ~Has(Store, lastOp.id)
    /\ sessions = Pre.sessions
    /\ entries = Pre.entries
C10_Witness == SetAtCapacity /\ IdleEntries(Pre) = {} /\ maxSessions = MaxSessions

\* C11: set with an id that is already in the store evicts nothing, throws
\* nothing and leaves the size as it was, at capacity or below and with all
\* records streaming or not; the id then maps to the entry passed.
C11_OverwriteKeepsSize ==
  (lastOp.op = "set" /\ Has(Pre, lastOp.id)) =>
    /\ ~lastOp.threw
    /\ lastOp.victim = 0
    /\ lastOp.log = <<>>
    /\ entries = Pre.entries
    /\ Len(sessions) = Len(Pre.sessions)
    /\ MapKeys(sessions) = MapKeys(Pre.sessions)
    /\ MapGet(sessions, lastOp.id) = lastOp.entry
C11_Witness ==
  /\ lastOp.op = "set" /\ Has(Pre, lastOp.id)
  /\ Len(Pre.sessions) = maxSessions /\ maxSessions = MaxSessions
  /\ IdleEntries(Pre) = {}

\* The entries that are in the store before a step and not after it.
Left == EntrySet(sessions) \ EntrySet(sessions')

\* C12: every record that leaves the store, by delete, capacity eviction, idle
\* expiry, clear or replacement by a set under its id, has unsubscribe,
\* session.abort and session.dispose invoked on it in that step.
C12_RemovedMeansDisposed ==
  [][\A o \in Left :
       /\ entries'[o].unsubscribed = entries[o].unsubscribed + 1
       /\ entries'[o].aborted = entries[o].aborted + 1
       /\ entries'[o].disposed = entries[o].disposed + 1]_vars

\* C13: over any sequence of pi, pi-reply, delete, sweep ticks and clear, no
\* session has unsubscribe or session.dispose invoked on it more than once:
\* not by a repeated delete, not by a sweep after an eviction, not by the pi
\* tool's own disposal after a capacity failure.
C13_DisposedAtMostOnce ==
  \A o \in Obj : entries[o].unsubscribed <= 1 /\ entries[o].disposed <= 1
C13_Witness ==
  /\ lastOp.op = "set" /\ lastOp.threw
  /\ entries[lastOp.entry].unsubscribed = 1 /\ entries[lastOp.entry].disposed = 1
  /\ ~Has(Store, lastOp.id)

\* The invocations of one full disposal of entry e, in the order of the code.
FullDisposal(e) == <<Call(e, "unsubscribe"), Call(e, "abort"), Call(e, "dispose")>>
\* The entries after one invocation of each callback of entry e.
Released(ents, e) ==
  [ents EXCEPT ![e].unsubscribed = @ + 1, ![e].aborted = @ + 1, ![e].disposed = @ + 1]
\* The entries without the promises their abort calls returned.
Fields(ents) == [o \in DOMAIN ents |-> [ents[o] EXCEPT !.abort = "none"]]

\* C14: delete of a stored record invokes unsubscribe, then session.abort,
\* then session.dispose, each of them once whichever of them throw; delete
\* itself throws nothing and the id is not in the store afterwards.
C14_DisposalRunsAllSteps ==
  [][lastOp'.op = "delete" =>
       LET e == MapGet(sessions, lastOp'.id) IN
       /\ ~lastOp'.threw
       /\ ~MapHas(sessions', lastOp'.id)
       /\ (e # 0) => /\ lastOp'.log = FullDisposal(e)
                     /\ Fields(entries') = Released(Fields(entries), e)]_vars
C14_Witness ==
  /\ lastOp.op = "delete"
  /\ lastOp.thrown = Callbacks
  /\ Len(lastOp.log) = 3 /\ lastOp.log[3].call = "dispose"
  /\ ~Has(Store, lastOp.id)

\* C15: delete with an id that is not in the store throws nothing, invokes no
\* unsubscribe, abort or dispose, and leaves the store, every record and the
\* timer as they were.
C15_DeleteAbsentIsNoOp ==
  [][(lastOp'.op = "delete" /\ ~Has(Store, lastOp'.id)) =>
       /\ ~lastOp'.threw
       /\ lastOp'.log = <<>>
       /\ UNCHANGED <<sessions, entries, expiryTimer, maxSessions, idleTimeoutMs>>]_vars
C15_Witness ==
  /\ lastOp.op = "delete" /\ lastOp.log = <<>>
  /\ Len(sessions) > 0
  /\ \E o \in Obj : entries[o].disposed = 1

\* C16: when clear returns the store is empty, clear has thrown nothing, and
\* every record that was in the store when it started has had unsubscribe,
\* abort and dispose invoked exactly once, whichever of them throw; no other
\* entry is touched.
C16_ClearDisposesAll ==
  [][lastOp'.op = "clear" =>
       /\ ~lastOp'.threw
       /\ sessions' = <<>>
       /\ \A o \in Obj :
            IF o \in EntrySet(sessions)
            THEN /\ Fields(entries')[o] = Released(Fields(entries), o)[o]
                 /\ entries'[o].unsubscribed = 1
                 /\ entries'[o].aborted = 1
                 /\ entries'[o].disposed = 1
            ELSE entries'[o] = entries[o]]_vars
C16_Witness ==
  /\ lastOp.op = "clear"
  /\ lastOp.thrown = Callbacks
  /\ Len(SelectSeq(lastOp.log, LAMBDA c : c.call = "dispose")) = MaxSessions
  /\ sessions = <<>>

\* C17: clear stops the expiry timer before it disposes any record, and from
\* the moment clear has run no sweep tick ever runs again.
C17_NoSweepAfterClear ==
  [](lastOp.op = "clear" =>
       /\ ~expiryTimer
       /\ \A i \in 1 .. Len(lastOp.log) : lastOp.log[i].call = "clearInterval" => i = 1
       /\ [](lastOp.op # "sweep"))
C17_Witness ==
  /\ lastOp.op = "clear"
  /\ Len(lastOp.log) > 1 /\ lastOp.log[1].call = "clearInterval"
  /\ idleTimeoutMs > 0

\* The step is a call of delete, or of clear.
DeleteStep == \E threadId \in StoreIds : DeleteCall(threadId)
ClearStep == ClearCall
\* The age of the record at place i of the store.
Age(i) == now - entries[sessions[i].entry].lastAccessed

\* C18 as stated: in a store built with idle timeout 0 no sweep is scheduled,
\* and a record leaves the store only by delete, by the capacity eviction of
\* a set, or by clear.
C18_LeavesByDeleteEvictionClear ==
  [][idleTimeoutMs = 0 =>
       /\ ~expiryTimer /\ ~expiryTimer'
       /\ lastOp'.op # "sweep"
       /\ (Left # {}) =>
            \/ lastOp'.op = "set" /\ Left = {lastOp'.victim}
            \/ DeleteStep
            \/ ClearStep]_vars

\* C18, amended: in a store built with idle timeout 0 no sweep is scheduled
\* and no record leaves because of its age; a record leaves only by delete,
\* by clear, or by a set, which removes its capacity victim or the record it
\* replaces under the same id.
C18_NoExpiryWithoutTimeout ==
  [][idleTimeoutMs = 0 =>
       /\ ~expiryTimer /\ ~expiryTimer'
       /\ lastOp'.op # "sweep"
       /\ (Left # {}) =>
            \/ lastOp'.op = "set" /\ Left \subseteq {lastOp'.victim, MapGet(sessions, lastOp'.id)}
            \/ DeleteStep
            \/ ClearStep]_vars
C18_Witness ==
  /\ idleTimeoutMs = 0
  /\ \E i \in 1 .. Len(sessions) : Age(i) = MaxTicks * TickMs
  /\ lastOp.op = "set" /\ Has(Pre, lastOp.id)

\* C19: a sweep tick of a store with idle timeout T > 0 removes and disposes
\* every record with now - lastAccessed > T and leaves every record with
\* now - lastAccessed <= T in the store, untouched; a callback that throws
\* while one record is disposed stops neither that disposal nor the tick.
C19_SweepExpiresExactlyTheOld ==
  [][lastOp'.op = "sweep" =>
       /\ idleTimeoutMs > 0
       /\ ~lastOp'.threw
       /\ \A i \in 1 .. Len(sessions) :
            LET r == sessions[i] IN
            IF Age(i) > idleTimeoutMs
            THEN /\ ~MapHas(sessions', r.id)
                 /\ Fields(entries')[r.entry] = Released(Fields(entries), r.entry)[r.entry]
            ELSE /\ MapGet(sessions', r.id) = r.entry
                 /\ entries'[r.entry] = entries[r.entry]
       /\ Len(sessions') <= Len(sessions)]_vars
C19_Witness ==
  /\ lastOp.op = "sweep"
  /\ lastOp.thrown = Callbacks
  /\ Len(lastOp.log) = 6 /\ lastOp.log[1].entry # lastOp.log[6].entry
  /\ sessions = <<>>

\* C20: get with an id in the store returns the record stored under it and
\* sets that record's lastAccessed to the current time, and changes nothing
\* else; get with an absent id returns undefined and changes nothing; has
\* returns whether the id is in the store and changes nothing.
C20_LookupsOnlyRefresh ==
  [][/\ lastOp'.op = "get" =>
          LET e == MapGet(sessions, lastOp'.id) IN
          /\ lastOp'.entry = e
          /\ entries' = IF e # 0 THEN [entries EXCEPT ![e].lastAccessed = now] ELSE entries
          /\ UNCHANGED <<sessions, expiryTimer, now, maxSessions, idleTimeoutMs>>
     /\ lastOp'.op = "has" =>
          /\ lastOp'.found = MapHas(sessions, lastOp'.id)
          /\ UNCHANGED <<sessions, entries, expiryTimer, now, maxSessions, idleTimeoutMs>>]_vars
C20_Witness ==
  /\ lastOp.op = "get" /\ lastOp.entry # 0
  /\ now = MaxTicks * TickMs
  /\ Len(sessions) = 2
  /\ \A i \in 1 .. Len(sessions) :
       IF sessions[i].entry = lastOp.entry THEN Age(i) = 0 ELSE Age(i) = now

\* C21: the lastAccessed of a session record the pi tool created never
\* decreases, over any sequence of lookups, pi-reply calls and sweep ticks,
\* the clock never going backwards.
C21_LastAccessedNeverDecreases ==
  [][/\ now' >= now
     /\ \A o \in PiCall : entries'[o].lastAccessed >= entries[o].lastAccessed]_vars
C21_Witness ==
  /\ lastRet.tool = "pi-reply" /\ lastRet.result = "text"
  /\ now > 0
  /\ entries[reply[lastRet.call].entry].lastAccessed = now
  /\ Has(Store, reply[lastRet.call].threadId)

\* C22: whenever a pi-reply call's session.prompt has settled, with a result or
\* with an error, the record's lastAccessed is the current time by the moment
\* the call's ticket is released to the next waiter.
C22_RefreshedAfterEveryPrompt ==
  [][\A c \in Reply :
       (reply[c].pc = "prompting" /\ c \in resolved' /\ c \notin resolved)
         => entries'[reply[c].entry].lastAccessed = now']_vars

\* C23: a pi-reply call whose thread id is not in the store (never created,
\* evicted, expired or drained) returns 'Session not found', installs no
\* ticket, calls no method of any session and leaves the store as it was.
C23_UnknownThreadIsRejected ==
  [][\A c \in Reply :
       (reply[c].pc = "idle" /\ reply'[c].pc # "idle"
          /\ ~Has(Store, reply'[c].threadId))
         => /\ lastRet' = Ret("pi-reply", c, "Session not found")
            /\ reply'[c].pc = "done" /\ reply'[c].entry = 0
            /\ UNCHANGED <<sessions, entries, resolved, installOrder, startOrder>>]_vars
C23_Witness ==
  /\ lastRet.tool = "pi-reply" /\ lastRet.result = "Session not found"
  /\ Len(sessions) > 0
  /\ \E o \in PiCall : /\ UUID(o) = reply[lastRet.call].threadId
                       /\ entries[o].disposed = 1

\* Each callback of entry e has been invoked exactly once.
ReleasedOnce(ents, e) ==
  ents[e].unsubscribed = 1 /\ ents[e].aborted = 1 /\ ents[e].disposed = 1

\* C24: when store.set throws the capacity error inside the pi tool, the tool
\* calls unsubscribe, abort and dispose of the session it could not store once
\* each, that session is not in the store, the stored sessions and their
\* records are as they were, and if the agent produced text the call returns
\* that text under the 'session not stored' warning.
C24_CapacityFailureInPi ==
  [][\A o \in PiCall :
       (pi[o].pc = "prompting" /\ pi'[o].pc = "done"
          /\ lastOp'.op = "set" /\ lastOp'.threw
          /\ lastOp'.err = CapacityError(maxSessions))
         => /\ ReleasedOnce(entries', o)
            /\ ~Has(Store', UUID(o)) /\ o \notin EntrySet(sessions')
            /\ sessions' = sessions
            /\ \A e \in Obj \ {o} : entries'[e] = entries[e]
            /\ lastRet'.tool = "pi" /\ lastRet'.call = o
            /\ lastRet'.result \in {"warning: session not stored",
                                   "Agent completed but produced no text response."}
            /\ PiPromptDone(o, "text")
                 => lastRet'.result = "warning: session not stored"]_vars
C24_Witness ==
  /\ lastOp.op = "set" /\ lastOp.threw /\ lastOp.err = CapacityError(maxSessions)
  /\ lastRet = Ret("pi", lastOp.entry, "warning: session not stored")
  /\ ReleasedOnce(entries, lastOp.entry)
  /\ Len(sessions) = maxSessions

\* C26: work on one session never blocks another: a pi-reply call that is held
\* at its wait is held by the ticket of an unfinished call on the same
\* session, never by a ticket or a running prompt of a different session.
C26_WaitsOnlyForOwnSession ==
  \A c \in Reply :
    (reply[c].pc = "waiting" /\ ~MutexResolved(resolved, reply[c].previousMutex))
      => \E d \in Reply :
           /\ d = reply[c].previousMutex
           /\ reply[d].entry = reply[c].entry
           /\ reply[d].pc \in {"waiting", "prompting"}
C26_Witness ==
  \E c, d \in Reply :
    /\ reply[c].pc = "prompting" /\ reply[d].pc = "prompting"
    /\ reply[c].entry # reply[d].entry
    /\ d > c
    /\ now > entries[reply[c].entry].lastAccessed

\* C28: the idle sweep never disposes a session while a pi-reply prompt on
\* that session is in flight, however long the prompt has been running.
C28_SweepSparesInFlightPrompts ==
  [][SweepTick => \A o \in Left : InFlight(o) = {}]_vars

\* C29: a disposal takes the record out of the store before it invokes any
\* release step: no unsubscribe, abort or dispose of a record runs while
\* has(id) is true (get(id) defined) for that record's id.
C29_RemovedBeforeReleaseSteps ==
  \A i \in 1 .. Len(lastOp.log) : lastOp.log[i] \notin lastOp.stored
C29_Witness ==
  /\ lastOp.op = "delete"
  /\ \E e \in Obj : lastOp.log = FullDisposal(e) /\ e \notin EntrySet(sessions)
  /\ lastOp.stored = {}
  /\ ~Has(Store, lastOp.id)
  /\ Len(sessions) > 0

\* C30: a disposal does not wait for session.abort: when delete returns it has
\* thrown nothing, session.dispose has been invoked and the promise abort
\* returned is still pending; whether that promise later resolves or rejects,
\* a rejection is taken by the handler attached to it and is never left
\* unhandled.
C30_AbortIsNotAwaited ==
  /\ proc.unhandled = 0
  /\ \A o \in Obj :
       /\ entries[o].abort # "unhandled"
       /\ entries[o].abort # "none" => entries[o].disposed = 1
  /\ lastOp.op = "delete" =>
       /\ ~lastOp.threw
       /\ \A i \in 1 .. Len(lastOp.log) :
            (lastOp.log[i].call = "abort" /\ "abort" \notin lastOp.thrown)
              => /\ entries[lastOp.log[i].entry].abort = "pending"
                 /\ entries[lastOp.log[i].entry].disposed = 1
C30_Witness ==
  \E o, p \in Obj :
    /\ lastOp.op = "delete" /\ lastOp.log = FullDisposal(p)
    /\ entries[p].abort = "pending" /\ entries[p].disposed = 1
    /\ entries[o].abort = "absorbed" /\ entries[o].disposed = 1

\* C25: a failure of the logging sink while an agent event is forwarded never
\* leaves the listener and changes nothing: the store, every session record
\* and the running server stay as they were.
C25_SinkFailureIsIsolated ==
  [][/\ ~proc'.escaped
     /\ proc.phase = "running" => proc'.phase = "running"
     /\ (\E o \in PiCall, type \in EventTypes, sink \in SinkOutcomes :
           AgentEvent(o, type, sink))
          => UNCHANGED <<sessions, entries>>]_vars

\* An environment value that is set and has no digit in it.
NonNumeric(v) == v # Undefined /\ \A i \in 1 .. Len(v[1]) : v[1][i] \notin Digits
\* An environment value that is the decimal numeral of zero.
Zero(v) == v # Undefined /\ v[1] # <<>> /\ \A i \in 1 .. Len(v[1]) : DigitValue(v[1][i]) = 0
\* An environment value that is the decimal numeral of a negative integer.
Negative(v) ==
  /\ v # Undefined /\ Len(v[1]) >= 2 /\ v[1][1] = 45
  /\ \A i \in 2 .. Len(v[1]) : v[1][i] \in Digits
  /\ \E i \in 2 .. Len(v[1]) : DigitValue(v[1][i]) # 0

\* No SessionStore has been constructed: the variables of the store are as
\* the process starts with them.
NoStore == maxSessions = 0 /\ idleTimeoutMs = 0 /\ ~expiryTimer
\* C27: loadConfig returns a configuration only with maxSessions an integer
\* >= 1 and sessionIdleTimeout an integer >= 0; it throws for a
\* PI_MCP_MAX_SESSIONS that is non-numeric or zero and for a negative
\* PI_MCP_SESSION_IDLE_TIMEOUT; so no SessionStore is constructed with a
\* capacity below 1 or a negative timeout.
C27_ConfigIsValidated ==
  LET IsInteger(n) == n.kind = "finite"
  IN
  \E config \in {LoadConfig(env)} :
    proc.phase # "start" =>
    /\ ~config.threw =>
         /\ IsInteger(config.maxSessions) /\ ~Below(config.maxSessions, 1)
         /\ IsInteger(config.sessionIdleTimeout)
         /\ ~Below(config.sessionIdleTimeout, 0)
    /\ (NonNumeric(env.maxSessions) \/ Zero(env.maxSessions)
          \/ Negative(env.idleTimeout)) => config.threw
    /\ config.threw => proc.phase = "exited" /\ proc.exitCode = <<1>> /\ NoStore
    /\ proc.phase \in {"connecting", "running"} =>
         /\ maxSessions = Value(config.maxSessions)
         /\ idleTimeoutMs = Value(Times(config.sessionIdleTimeout, MsPerSecond))

\* The pi call that created session o returns in this step.
PiReturns(o) == pi[o].pc = "prompting" /\ pi'[o].pc = "done"
\* No callback of entry e has been invoked.
Untouched(ents, e) ==
  ents[e].unsubscribed = 0 /\ ents[e].aborted = 0 /\ ents[e].disposed = 0

\* C31: when the first session.prompt of a pi call throws, the new session has
\* unsubscribe, abort and dispose invoked once each, the store and the other
\* records are unchanged, the call returns an error result, and the session
\* is not stored then or later.
C31_PromptFailureInPi ==
  [][\A o \in PiCall :
       /\ (PiReturns(o) /\ PiPromptDone(o, "throw"))
            => /\ ReleasedOnce(entries', o)
               /\ ~Has(Store', UUID(o)) /\ o \notin EntrySet(sessions')
               /\ sessions' = sessions
               /\ \A e \in Obj \ {o} : entries'[e] = entries[e]
               /\ lastRet' = Ret("pi", o, "Pi agent error")
       /\ (pi[o].pc = "done" /\ ~Has(Store, UUID(o))) => ~Has(Store', UUID(o))]_vars
C31_Witness ==
  \E o \in PiCall :
    /\ lastRet = Ret("pi", o, "Pi agent error")
    /\ ReleasedOnce(entries, o)
    /\ ~Has(Store, UUID(o))
    /\ Len(sessions) > 0

\* The pi call o returns in this step, having created a session.
PiReturnsWithSession(o) == pi[o].pc # "done" /\ pi'[o].pc = "done" /\ pi'[o].session

\* C36: when a pi call returns, the session it created is either stored under
\* its thread id with no release step invoked on it, or not stored with
\* unsubscribe, abort and dispose invoked; never unstored and undisposed.
C36_StoredOrDisposed ==
  [][\A o \in PiCall :
       PiReturnsWithSession(o) =>
         \/ /\ MapGet(sessions', UUID(o)) = o
            /\ Untouched(entries', o)
         \/ /\ ~Has(Store', UUID(o)) /\ o \notin EntrySet(sessions')
            /\ ReleasedOnce(entries', o)]_vars

\* C37: whenever a pi call returns leaving its new session in the store, the
\* result carries that session's thread id.
C37_StoredMeansIdReturned ==
  [][\A o \in PiCall :
       (PiReturns(o) /\ Has(Store', UUID(o)))
         => lastRet' = Ret("pi", o, "thread_id")]_vars

\* The pi-reply calls that installed a ticket on entry o and have not finished.
Unfinished(o) ==
  {c \in Reply : reply[c].entry = o /\ reply[c].pc \in {"waiting", "prompting"}}

\* C38: the current ticket of a record is unresolved exactly while some
\* pi-reply call that installed a ticket on it has not finished; once all of
\* them have finished the current ticket is resolved.
C38_TicketTracksUnfinishedCalls ==
  \A o \in Obj :
    ~MutexResolved(resolved, entries[o].mutex) <=> Unfinished(o) # {}
C38_Witness ==
  \E o \in Obj, c, d \in Reply :
    /\ c # d
    /\ installOrder[o] = <<c, d>>
    /\ reply[c].pc = "done" /\ reply[d].pc = "done"
    /\ entries[o].mutex = d
    /\ MutexResolved(resolved, entries[o].mutex)
    /\ lastRet = Ret("pi-reply", d, NotFoundAfterWait)

\* How often step occurs in a log.
Count(log, step) == Cardinality({i \in 1 .. Len(log) : log[i] = step})
ShutdownSteps == <<"clear", "resetSandbox", "close", "exit">>

\* C34: the body of shutdown (store.clear, resetSandbox, server.close, the
\* exit) runs at most once, however many SIGINT, SIGTERM and transport-close
\* triggers arrive and however they interleave, a transport close raised
\* while shutdown awaits server.close included.
C34_ShutdownRunsOnce ==
  /\ proc.bodies <= 1
  /\ \A i \in 1 .. Len(ShutdownSteps) : Count(proc.log, ShutdownSteps[i]) <= 1
C34_Witness ==
  /\ proc.phase = "exited" /\ proc.exitCode = <<0>>
  /\ proc.triggers = MaxTriggers
  /\ proc.reentered
  /\ proc.bodies = 1

\* C35: shutdown attempts store.clear, resetSandbox and server.close in that
\* order and then exits with code 0; a step that fails does not keep the
\* later steps from being attempted nor the exit from happening.  A process
\* that has exited after a call of shutdown has attempted all of them and
\* exited with code 0.
C35_ShutdownStepsInOrder ==
  /\ IsPrefix(proc.log, ShutdownSteps)
  /\ proc.at # "rejected"
  /\ proc.phase = "exited" /\ proc.triggers > 0 =>
       proc.log = ShutdownSteps /\ proc.exitCode = <<0>>

\* The exit code exec's promise is to resolve with: 1 if wrapWithSandbox
\* failed or 'error' came before 'close', else the code of 'close'.
Expected(x) ==
  IF x.wrapFailed \/ (x.events # <<>> /\ x.events[1].type = "error") THEN <<1>>
  ELSE x.code

\* C32: the promise a call of the sandboxed exec returns is never rejected,
\* and it is resolved once wrapWithSandbox has failed, the child has emitted
\* 'error' or the child has closed: with exitCode 1 in the first two cases,
\* else with the child's exit code, also when annotating stderr throws.
C32_ExecAlwaysResolves ==
  /\ exec.promise # <<"rejected">>
  /\ (exec.wrapFailed \/ exec.events # <<>>)
       <=> exec.promise = <<"resolved", Expected(exec)>>
\* C33: with a timeout set, SIGTERM is sent when the timeout has elapsed and
\* SIGKILL only 5 seconds or more after it, the child not having closed; once
\* the child has closed or emitted 'error', no signal is sent.
C33_SignalsOnlyWhileRunning ==
  \A i \in 1 .. Len(exec.signals) :
    LET k == exec.signals[i] IN
    /\ exec.timeout # 0
    /\ k.signal = "SIGTERM" => i = 1 /\ k.at >= exec.spawnedAt + exec.timeout
    /\ k.signal = "SIGKILL" =>
         /\ i = 2 /\ exec.signals[1].signal = "SIGTERM"
         /\ k.at >= exec.signals[1].at + KillGraceMs
    /\ k.after = {}
====
